---- MODULE Spec2Model ----
(***************************************************************************)
(* The client reconnection controller of start-streaming                   *)
(* (src/client/hooks/useAutoReconnectStream.ts) as a state machine.        *)
(*                                                                         *)
(* The hook's state is its React state (isConnected, isReconnecting,       *)
(* reconnectAttempt, error), its refs (abortControllerRef,                 *)
(* reconnectTimeoutRef, currentAttemptRef), its props, and the work its    *)
(* effect closures left in flight: connectToStream invocations suspended   *)
(* at an await, and setTimeout callbacks not yet run.  JavaScript runs one *)
(* callback at a time, so every action is one callback run to its next     *)
(* await: an effect (cleanup of the old closure, body of the new one), a   *)
(* promise settling, a stream delivering, a timer firing, reconnect().     *)
(***************************************************************************)
EXTENDS Integers, Sequences, FiniteSets, TLC

\* Bounds of the model.
MaxCalls == 3          \* streamFn is invoked at most this many times
MaxRetriesBound == 1   \* the maxRetries option ranges over 0..MaxRetriesBound and Infinity
RandomSteps == 4       \* Math.random() is drawn from the multiples of 1/RandomSteps below 1
MaxSubs == 2           \* subscribe() is called at most this many times
MaxPublishes == 2      \* publish() is called at most this many times
MaxChannels == 2       \* createChannel() is called at most this many times
MaxSessions == 2       \* the route handler serves at most this many requests
MaxMessages == 2       \* the EventSource delivers at most this many message events
MaxCreated == 2        \* createEventBroadcaster is called at most this many times
MaxAttempt == 6        \* the backoff utilities are called with attempt 0..MaxAttempt, and
                       \* with the attempt from which 2 ** attempt overflows

Infinity == MaxCalls + 1   \* larger than any attempt the bounded model reaches

VARIABLES
  comp,               \* "init" (rendered, effect not yet run) | "mounted" | "unmounted"
  enabled,            \* option enabled
  pauseOnHidden,      \* option pauseOnHidden
  isVisible,          \* usePageVisibility()
  maxRetries,         \* option maxRetries
  extAborted,         \* the external signal of the options has been aborted
  tasks,              \* connectToStream invocations, by order of the streamFn call
  abortControllerRef, \* abortControllerRef.current: the task whose controller it holds, 0 = null
  timers,             \* setTimeout callbacks armed and not yet run or cleared, each with
                      \* the attempt its delay was computed from
  currentAttemptRef,  \* currentAttemptRef.current
  isConnected,        \* useState
  isReconnecting,     \* useState
  reconnectAttempt,   \* useState
  error,              \* useState: "null" or "err"
  factoryCalls,       \* number of streamFn invocations so far
  nMaxReached,        \* number of onMaxRetriesReached invocations so far
  fired,              \* the calls across the hook's boundary during the last action, in
                      \* order: inwards handleVisibilityChange and reconnect, outwards
                      \* streamFn and the option callbacks
  firedBy             \* the closure that made the outward calls: its isMounted and its
                      \* combined signal's aborted

\* The memory broadcaster of src/server/events.ts (createMemoryBroadcaster).
VARIABLES
  emitter,            \* the EventEmitter: for each channel its listeners, in the order of
                      \* emitter.on, each the listener closure of one subscription
  subs,               \* the async generators subscribe() returned
  nPublished,         \* number of publish calls so far
  threw               \* the last call on the broadcaster threw

hookVars == <<comp, enabled, pauseOnHidden, isVisible, maxRetries, extAborted, tasks,
              abortControllerRef, timers, currentAttemptRef, isConnected, isReconnecting,
              reconnectAttempt, error, factoryCalls, nMaxReached, fired, firedBy>>

broadcasterVars == <<emitter, subs, nPublished, threw>>

\* The channel manager of src/server/channel-manager.ts (createSSEChannelManager) and the
\* sessions the route handler of createSSERouteHandler registers on its channels.
VARIABLES
  keyPrefix,          \* config.keyPrefix, a string (a sequence of characters)
  keySuffix,          \* config.keySuffix
  channels,           \* the Map: channel key -> the Channel stored under it
  nChannels,          \* number of createChannel() calls so far; Channel i is the i-th created
  activeSessions,     \* channel.activeSessions, for each Channel created
  sessions,           \* the sessions of the route handler's requests
  lastCall            \* the last call on the manager and what it returned

registryVars == <<keyPrefix, keySuffix, channels, nChannels, activeSessions, sessions, lastCall>>

\* The client hooks of src/client/hooks: useSSEConnection, with the onEvent that
\* useSSEQueryInvalidation passes to it.
VARIABLES
  sse,                \* useSSEConnection: comp ("init" | "mounted" | "unmounted"), the
                      \* option enabled, the state connected, and eventSource, "null"
                      \* when eventSourceRef.current is null, else the readyState of
                      \* the EventSource it holds
  queryKeys,          \* option queryKeys of useSSEQueryInvalidation
  received,           \* the data of the message events received so far
  sseFired            \* the calls the hooks made during the last action, in order

sseVars == <<sse, queryKeys, received, sseFired>>

\* Calls of the exported functions that keep no state of their own.
VARIABLES
  created,            \* the createEventBroadcaster calls made so far: the config passed
                      \* and what the call did
  backoff             \* the last call of calculateBackoff, addJitter or
                      \* calculateBackoffWithJitter: its arguments and what it returned

utilVars == <<created, backoff>>

vars == <<hookVars, broadcasterVars, registryVars, sseVars, utilVars>>

TaskIds == 1..MaxCalls

\* A connectToStream invocation: where it is suspended, its closure's isMounted,
\* its own AbortController's signal, and currentAttemptRef.current when it called streamFn.
NoTask == [pc |-> "none", isMounted |-> FALSE, aborted |-> FALSE, att |-> 0]
\* An invocation that has returned: nothing reads its closure or its signal any more.
Returned == [pc |-> "done", isMounted |-> FALSE, aborted |-> FALSE, att |-> 0]
InFlight(tk) == tk.pc \in {"factory", "iter"}
NoOne == [isMounted |-> TRUE, aborted |-> FALSE]

\* The whole state as one record, so that a handler is a composition of functions.
Cur ==
  [comp |-> comp, enabled |-> enabled, pauseOnHidden |-> pauseOnHidden,
   isVisible |-> isVisible, maxRetries |-> maxRetries, extAborted |-> extAborted,
   tasks |-> tasks, abortControllerRef |-> abortControllerRef, timers |-> timers,
   currentAttemptRef |-> currentAttemptRef, isConnected |-> isConnected,
   isReconnecting |-> isReconnecting, reconnectAttempt |-> reconnectAttempt,
   error |-> error, factoryCalls |-> factoryCalls, nMaxReached |-> nMaxReached,
   fired |-> fired, firedBy |-> firedBy]

Set(r) ==
  /\ comp' = r.comp
  /\ enabled' = r.enabled
  /\ pauseOnHidden' = r.pauseOnHidden
  /\ isVisible' = r.isVisible
  /\ maxRetries' = r.maxRetries
  /\ extAborted' = r.extAborted
  /\ tasks' = r.tasks
  /\ abortControllerRef' = r.abortControllerRef
  /\ timers' = r.timers
  /\ currentAttemptRef' = r.currentAttemptRef
  /\ isConnected' = r.isConnected
  /\ isReconnecting' = r.isReconnecting
  /\ reconnectAttempt' = r.reconnectAttempt
  /\ error' = r.error
  /\ factoryCalls' = r.factoryCalls
  /\ nMaxReached' = r.nMaxReached
  /\ fired' = r.fired
  /\ firedBy' = r.firedBy
  /\ UNCHANGED <<broadcasterVars, registryVars, sseVars, utilVars>>

\* The state an action starts from: nothing called yet.
Begin == [Cur EXCEPT !.fired = <<>>, !.firedBy = NoOne]

----------------------------------------------------------------------------
\* React state setters.  React drops an update to a component that is not mounted.
setIsConnected(s, v) == IF s.comp = "mounted" THEN [s EXCEPT !.isConnected = v] ELSE s
setIsReconnecting(s, v) == IF s.comp = "mounted" THEN [s EXCEPT !.isReconnecting = v] ELSE s
setReconnectAttempt(s, v) == IF s.comp = "mounted" THEN [s EXCEPT !.reconnectAttempt = v] ELSE s
setError(s, v) == IF s.comp = "mounted" THEN [s EXCEPT !.error = v] ELSE s

\* const shouldStream = enabled && (!pauseOnHidden || isVisible).  shouldStream is a
\* dependency of the effect, so the closure whose isMounted is true captured this value.
shouldStream(s) == s.enabled /\ (~s.pauseOnHidden \/ s.isVisible)

\* combinedSignal.aborted of task t: AbortSignal.any of its own controller and the external signal.
combinedAborted(s, t) == s.tasks[t].aborted \/ s.extAborted

\* An entry of fired: the call, currentAttemptRef.current at the call (what onData and
\* onError receive as reconnectAttempt), and what shouldRetry returned (TRUE for the others).
Call(s, cb, res) == [cb |-> cb, attempt |-> s.currentAttemptRef, res |-> res]

\* A call into the hook.
called(s, cb) == [s EXCEPT !.fired = Append(@, Call(s, cb, TRUE))]

\* streamFn, shouldRetry or an option callback invoked by task t's closure.
invokeRes(s, t, cb, res) ==
  [s EXCEPT !.fired = Append(@, Call(s, cb, res)),
            !.firedBy = [isMounted |-> s.tasks[t].isMounted, aborted |-> combinedAborted(s, t)]]

invoke(s, t, cb) == invokeRes(s, t, cb, TRUE)

\* abortControllerRef.current?.abort()
abort(s) ==
  IF s.abortControllerRef # 0 /\ InFlight(s.tasks[s.abortControllerRef])
  THEN [s EXCEPT !.tasks[s.abortControllerRef].aborted = TRUE]
  ELSE s

\* if (reconnectTimeoutRef.current) clearTimeout(reconnectTimeoutRef.current)
clearReconnectTimeout(s) ==
  [s EXCEPT !.timers = SelectSeq(@, LAMBDA x : ~x.isRef)]

\* Option defaults and the jitter scheduleReconnect asks for, in percent.
baseDelay == 1000
maxDelay == 30000
JitterPercent == 25

\* Math.random() returns r / RandomSteps for some r of Randoms: a number of [0, 1).
Randoms == 0..(RandomSteps - 1)

\* Numbers are doubles.  The delays of the model are integers far below 2^30, which
\* stands for Infinity; NaN is not a number of the model's range either.
PosInfinity == 2^30
NaN == -(2^30)

\* 2 ** attempt is Infinity from attempt 1024 (the largest double is below 2^1024).
OverflowExponent == 1024
pow2(attempt) == IF attempt >= OverflowExponent THEN PosInfinity ELSE 2^attempt

\* a * b for a, b >= 0: 0 * Infinity is NaN.
times(a, b) ==
  IF a = NaN \/ b = NaN THEN NaN
  ELSE IF a = PosInfinity \/ b = PosInfinity
       THEN (IF a = 0 \/ b = 0 THEN NaN ELSE PosInfinity)
       ELSE a * b

\* Math.min(a, b): NaN when an argument is NaN.
mathMin(a, b) ==
  IF a = NaN \/ b = NaN THEN NaN ELSE IF a < b THEN a ELSE b

\* calculateBackoff({attempt, baseDelay, maxDelay})
calculateBackoff(attempt, base, max) ==
  LET delay == times(base, pow2(attempt))
  IN mathMin(delay, max)

\* addJitter(delay, jitterPercent) when Math.random() returns r / RandomSteps:
\* Math.round(delay + delay * jitterPercent * (random * 2 - 1)), Math.round rounding
\* a half upwards.
addJitter(delay, percent, r) ==
  LET den == 100 * RandomSteps
      num == delay * den + delay * percent * (2 * r - RandomSteps)
  IN IF delay = NaN THEN NaN ELSE (2 * num + den) \div (2 * den)

\* calculateBackoffWithJitter({attempt, baseDelay, maxDelay, jitterPercent})
calculateBackoffWithJitter(attempt, base, max, percent, r) ==
  LET delay == times(base, pow2(attempt))
      cappedDelay == mathMin(delay, max)
  IN addJitter(cappedDelay, percent, r)

\* scheduleReconnect with a defect: the delay is computed before the increment.
scheduleReconnect_delayThenIncrement(s, t) ==
  LET s1 == setIsReconnecting(s, TRUE)
      s2 == [s1 EXCEPT !.currentAttemptRef = @ + 1]
      old == [i \in DOMAIN s2.timers |-> [s2.timers[i] EXCEPT !.isRef = FALSE]]
  IN [s2 EXCEPT !.timers = Append(old, [isMounted |-> s.tasks[t].isMounted, isRef |-> TRUE,
                                        attempt |-> s.currentAttemptRef])]

\* scheduleReconnect, called by task t's closure.  The timer's delay is
\* calculateBackoffWithJitter of the attempt after the increment.
scheduleReconnect(s, t) ==
  LET s1 == setIsReconnecting(s, TRUE)
      s2 == [s1 EXCEPT !.currentAttemptRef = @ + 1]
      old == [i \in DOMAIN s2.timers |-> [s2.timers[i] EXCEPT !.isRef = FALSE]]
  IN [s2 EXCEPT !.timers = Append(old, [isMounted |-> s.tasks[t].isMounted, isRef |-> TRUE,
                                        attempt |-> s2.currentAttemptRef])]

\* retryDecision with a defect: the cap compared with <= instead of <.
retryDecision_capOffByOne(s, sr) ==
  LET belowMaxRetries == s.currentAttemptRef <= s.maxRetries
  IN [retry |-> sr /\ belowMaxRetries /\ shouldStream(s),
      maxReached |-> ~(sr /\ belowMaxRetries /\ shouldStream(s)) /\ ~belowMaxRetries]

\* retryDecision with a defect: the cap is reported only when shouldRetry allowed the retry.
retryDecision_capOnlyIfAllowed(s, sr) ==
  LET belowMaxRetries == s.currentAttemptRef < s.maxRetries
  IN [retry |-> sr /\ belowMaxRetries /\ shouldStream(s),
      maxReached |-> sr /\ ~belowMaxRetries]

\* The retry decision of the catch branch: [retry, maxReached].
retryDecision(s, sr) ==
  LET belowMaxRetries == s.currentAttemptRef < s.maxRetries
  IN [retry |-> sr /\ belowMaxRetries /\ shouldStream(s),
      maxReached |-> ~(sr /\ belowMaxRetries /\ shouldStream(s)) /\ ~belowMaxRetries]

\* Task t returns: its slot holds nothing that is read again.
return(s, t) == [s EXCEPT !.tasks[t] = Returned]

\* The catch branch of connectToStream for task t; sr is what shouldRetry returns.
catchBranch(s, t, sr) ==
  IF ~s.tasks[t].isMounted \/ combinedAborted(s, t) THEN return(s, t)
  ELSE LET s1 == setIsConnected(setError(s, "err"), FALSE)
           s2 == invoke(invoke(s1, t, "onDisconnect"), t, "onError")
           s3 == invokeRes(s2, t, "shouldRetry", sr)
           d == retryDecision(s3, sr)
       IN IF d.retry THEN return(scheduleReconnect(s3, t), t)
          ELSE IF d.maxReached
               THEN return([invoke(s3, t, "onMaxRetriesReached") EXCEPT !.nMaxReached = @ + 1], t)
               ELSE return(s3, t)

\* streamObtained with a defect: a successful connection resets the attempt counter.
streamObtained_resetsAttempt(s, t) ==
  LET s1 == setIsConnected([s EXCEPT !.currentAttemptRef = 0], TRUE)
      s2 == setIsReconnecting(s1, FALSE)
      s3 == setReconnectAttempt(s2, 0)
      s4 == invoke(s3, t, "onConnect")
  IN [s4 EXCEPT !.tasks[t].pc = "iter"]

\* connectToStream after streamFn's result is there, up to the first stream.next().
streamObtained(s, t) ==
  LET s1 == setIsConnected(s, TRUE)
      s2 == setIsReconnecting(s1, FALSE)
      s3 == setReconnectAttempt(s2, s.currentAttemptRef)
      s4 == invoke(s3, t, "onConnect")
  IN [s4 EXCEPT !.tasks[t].pc = "iter"]

\* streamYield with a defect: the attempt handed to onData counts the events.
streamYield_countsItems(s, t) ==
  IF ~s.tasks[t].isMounted \/ combinedAborted(s, t)
  THEN return(s, t)
  ELSE [invoke(s, t, "onData") EXCEPT !.currentAttemptRef = @ + 1]

\* One turn of the for await loop of task t: the stream yields an event.
streamYield(s, t) ==
  IF ~s.tasks[t].isMounted \/ combinedAborted(s, t)
  THEN return(s, t)
  ELSE invoke(s, t, "onData")

\* streamDone with a defect: a stream that ends is finished for good, no reconnect.
streamDone_endsForGood(s, t) ==
  IF s.tasks[t].isMounted /\ ~combinedAborted(s, t) /\ shouldStream(s)
  THEN return(invoke(setIsConnected(s, FALSE), t, "onDisconnect"), t)
  ELSE return(s, t)

\* The for await loop of task t ends: the stream is done.
streamDone(s, t) ==
  IF s.tasks[t].isMounted /\ ~combinedAborted(s, t) /\ shouldStream(s)
  THEN return(scheduleReconnect(invoke(setIsConnected(s, FALSE), t, "onDisconnect"), t), t)
  ELSE return(s, t)

\* connectToStream up to its first await.  kind is what streamFn does: it throws,
\* returns a generator, or returns a promise.
connectToStream(s, kind, sr) ==
  IF ~shouldStream(s) THEN s
  ELSE LET t == s.factoryCalls + 1
           s1 == [s EXCEPT !.abortControllerRef = t,
                           !.tasks[t] = [pc |-> "factory", isMounted |-> TRUE,
                                         aborted |-> FALSE, att |-> s.currentAttemptRef]]
           s2 == setError(setIsConnected(s1, FALSE), "null")
           s3 == invoke([s2 EXCEPT !.factoryCalls = t], t, "streamFn")
       IN CASE kind = "throw" -> catchBranch(s3, t, sr)
            [] kind = "generator" -> streamObtained(s3, t)
            [] OTHER -> s3

\* The effect's cleanup: isMounted = false for the closure being discarded.
cleanup(s) ==
  LET s1 == [s EXCEPT !.tasks = [t \in TaskIds |-> IF InFlight(@[t]) THEN [@[t] EXCEPT !.isMounted = FALSE] ELSE @[t]],
                      !.timers = [i \in DOMAIN @ |-> [@[i] EXCEPT !.isMounted = FALSE]]]
  IN clearReconnectTimeout(abort(s1))

\* effect with a defect: every run of the effect starts a fresh session, attempt 0.
effect_resetsAttempt(s, kind, sr) ==
  IF shouldStream(s) THEN connectToStream([s EXCEPT !.currentAttemptRef = 0], kind, sr)
  ELSE abort(setIsReconnecting(setIsConnected(s, FALSE), FALSE))

\* The effect's body.
effect(s, kind, sr) ==
  IF shouldStream(s) THEN connectToStream(s, kind, sr)
  ELSE abort(setIsReconnecting(setIsConnected(s, FALSE), FALSE))

\* reconnect with a defect: the pending timer is not cleared.
reconnect_keepsTimer(s) ==
  LET s1 == abort(called(s, "reconnect"))
      s2 == [s1 EXCEPT !.currentAttemptRef = 0]
  IN setError(setReconnectAttempt(s2, 0), "null")

\* reconnect()
reconnect(s) ==
  LET s1 == clearReconnectTimeout(abort(called(s, "reconnect")))
      s2 == [s1 EXCEPT !.currentAttemptRef = 0]
  IN setError(setReconnectAttempt(s2, 0), "null")

\* The setTimeout callback of scheduleReconnect, timer i.
timeoutCallback(s, i, kind, sr) ==
  LET s1 == [s EXCEPT !.timers = SubSeq(@, 1, i - 1) \o SubSeq(@, i + 1, Len(@))]
  IN IF s.timers[i].isMounted /\ shouldStream(s) THEN connectToStream(s1, kind, sr) ELSE s1

----------------------------------------------------------------------------
\* createMemoryBroadcaster (src/server/events.ts).
\*
\* A subscription is the async generator subscribe() returns.  Its body runs only
\* while a next() request is served: from the first next() (emitter.on, then the
\* loop) to a yield.  Requests made meanwhile are queued by the generator and served
\* in order once it yields; return() on a generator suspended at a yield runs the
\* finally block, on one that has not started it completes without running anything.

Topics == {"chat", "error"}   \* a channel name, and the name EventEmitter treats specially
SubIds == 1..MaxSubs

\* The payload of a publish call: a falsy value (0, standing for 0, "", false, null)
\* or a value that names the call.
Payloads(n) == {0, n}
ToBoolean(x) == x # 0

NoSub ==
  [topic |-> "", pc |-> "unused", queue |-> <<>>, resolveNext |-> FALSE, woken |-> FALSE,
   reqs |-> <<>>, yielded |-> <<>>, heard |-> <<>>, offCalls |-> 0]
\* pc: "unused" | "start" (created, body not begun) | "await" (in the body, at the
\*     await of the loop) | "yield" (suspended at the yield) | "done"
\* queue, resolveNext: the closure's variables; resolveNext TRUE for non-null
\* woken: the promise awaited is resolved, the body has not resumed yet
\* reqs: the generator's queue of next()/return() requests not yet settled; while the
\*     body runs its head is the next() being served
\* yielded: the values the consumer received from next(), in order
\* heard: the payloads the listener was called with, in order
\* offCalls: number of times the finally block has run

Range(f) == {f[i] : i \in DOMAIN f}

\* The broadcaster's state as one record, so that the generator's body is a
\* composition of functions.
CurB == [emitter |-> emitter, subs |-> subs, nPublished |-> nPublished, threw |-> threw]

SetB(b) ==
  /\ emitter' = b.emitter
  /\ subs' = b.subs
  /\ nPublished' = b.nPublished
  /\ threw' = b.threw
  /\ UNCHANGED <<hookVars, registryVars, sseVars, utilVars>>

\* The state a call on the broadcaster starts from: nothing thrown yet.
BeginB == [CurB EXCEPT !.threw = FALSE]

\* emitter.listenerCount(channel)
getListenerCount(b, channel) == Len(b.emitter[channel])

\* const listener = (data) => { queue.push(data); if (resolveNext) { resolveNext(); resolveNext = null } }
listener(u, data) ==
  [u EXCEPT !.queue = Append(@, data), !.heard = Append(@, data),
            !.woken = @ \/ u.resolveNext, !.resolveNext = FALSE]

\* emitter.on(channel, listener) and emitter.off(channel, listener) of generator s.
on(b, s) == [b EXCEPT !.emitter[b.subs[s].topic] = Append(@, s)]
off(b, s) == [b EXCEPT !.emitter[b.subs[s].topic] = SelectSeq(@, LAMBDA x : x # s)]

\* finally with a defect: the listener is not removed.
finally_keepsListener(b, s) == [b EXCEPT !.subs[s].pc = "done", !.subs[s].offCalls = @ + 1]

\* The finally block of generator s: emitter.off, and the generator is completed.
finally(b, s) == [off(b, s) EXCEPT !.subs[s].pc = "done", !.subs[s].offCalls = @ + 1]

\* await new Promise(...): the body of s parks on a new promise.
park(b, s) ==
  [b EXCEPT !.subs[s].pc = "await", !.subs[s].resolveNext = TRUE, !.subs[s].woken = FALSE]

\* yield event: the next() being served is settled with the event.
yield(b, s, event) ==
  [b EXCEPT !.subs[s].yielded = Append(@, event), !.subs[s].reqs = Tail(@),
            !.subs[s].pc = "yield"]

RECURSIVE loop(_, _), resumeNext(_, _)

\* The while (true) loop of generator s, from its top to the next suspension: an event
\* of the queue that is truthy is yielded; an empty queue parks the body.
loop(b, s) ==
  IF b.subs[s].queue # <<>>
  THEN LET event == Head(b.subs[s].queue)
           b1 == [b EXCEPT !.subs[s].queue = Tail(@)]
       IN IF ToBoolean(event) THEN resumeNext(yield(b1, s, event), s) ELSE loop(b1, s)
  ELSE park(b, s)

\* Generator s, suspended or completed, takes up its queued requests: a next() runs
\* the body (from emitter.on when it has not started), a return() completes the
\* generator, through the finally block when the body has started.
resumeNext(b, s) ==
  LET u == b.subs[s]
      rest == [b EXCEPT !.subs[s].reqs = Tail(@)]
  IN IF u.reqs = <<>> THEN b
     ELSE IF u.pc = "done" THEN resumeNext(rest, s)
     ELSE IF Head(u.reqs) = "next"
          THEN IF u.pc = "start" THEN loop(on(b, s), s) ELSE loop(b, s)
     ELSE IF u.pc = "start" THEN resumeNext([rest EXCEPT !.subs[s].pc = "done"], s)
     ELSE resumeNext(finally(rest, s), s)

\* A next() or return() call on generator s: queued, and taken up at once unless the
\* body is running (parked at its await).
request(b, s, req) ==
  LET b1 == [b EXCEPT !.subs[s].reqs = Append(@, req)]
  IN IF b.subs[s].pc = "await" THEN b1 ELSE resumeNext(b1, s)

\* publish with a defect: the listeners of every topic are called.
publish_everyTopic(b, channel, data) ==
  LET b1 == [b EXCEPT !.nPublished = @ + 1]
  IN IF channel = "error" /\ b.emitter[channel] = <<>>
     THEN [b1 EXCEPT !.threw = TRUE]
     ELSE [b1 EXCEPT !.subs = [s \in SubIds |->
                                 IF \E c \in Topics : s \in Range(b.emitter[c])
                                 THEN listener(@[s], data) ELSE @[s]]]

\* publish(channel, data): emitter.emit(channel, data).  EventEmitter calls the
\* channel's listeners; an "error" event with no listener is thrown instead.
publish(b, channel, data) ==
  LET b1 == [b EXCEPT !.nPublished = @ + 1]
  IN IF channel = "error" /\ b.emitter[channel] = <<>>
     THEN [b1 EXCEPT !.threw = TRUE]
     ELSE [b1 EXCEPT !.subs = [s \in SubIds |->
                                 IF s \in Range(b.emitter[channel])
                                 THEN listener(@[s], data) ELSE @[s]]]

BroadcasterInit ==
  /\ emitter = [c \in Topics |-> <<>>]
  /\ subs = [s \in SubIds |-> NoSub]
  /\ nPublished = 0
  /\ threw = FALSE

\* broadcaster.subscribe(channel): the generator object, nothing of its body has run.
Subscribe(s, channel) ==
  /\ subs[s].pc = "unused"
  /\ \A r \in SubIds : r < s => subs[r].pc # "unused"
  /\ SetB([BeginB EXCEPT !.subs[s] = [NoSub EXCEPT !.topic = channel, !.pc = "start"]])

\* subscription.next(), by a consumer that has no next() or return() unsettled (as
\* for await does, it asks for one event at a time).
Pull(s) ==
  /\ subs[s].pc # "unused"
  /\ subs[s].reqs = <<>>
  /\ SetB(request(BeginB, s, "next"))

\* subscription.return(), at any time, also while a next() is unsettled; not while an
\* earlier return() is.
Close(s) ==
  /\ subs[s].pc # "unused"
  /\ "return" \notin Range(subs[s].reqs)
  /\ SetB(request(BeginB, s, "return"))

\* The body of s resumes after its await: the promise was resolved.
Resume(s) ==
  /\ subs[s].pc = "await"
  /\ subs[s].woken
  /\ SetB(loop(BeginB, s))

\* setTimeout(resolve, 30000) of the promise s awaits: the keep-alive resolves it, and
\* the body goes on in the microtask that follows, before anything else runs.
KeepAlive(s) ==
  /\ subs[s].pc = "await"
  /\ ~subs[s].woken
  /\ SetB(loop([BeginB EXCEPT !.subs[s].woken = TRUE], s))

Publish(channel, data) ==
  /\ nPublished < MaxPublishes
  /\ data \in Payloads(nPublished + 1)
  /\ SetB(publish(BeginB, channel, data))

NextBroadcaster ==
  \/ \E s \in SubIds, c \in Topics : Subscribe(s, c)
  \/ \E s \in SubIds : Pull(s)
  \/ \E s \in SubIds : Close(s)
  \/ \E s \in SubIds : Resume(s)
  \/ \E s \in SubIds : KeepAlive(s)
  \/ \E c \in Topics, x \in 0..MaxPublishes : Publish(c, x)

----------------------------------------------------------------------------
\* createSSEChannelManager (src/server/channel-manager.ts) and the sessions that
\* createSSERouteHandler registers.  A Channel is the better-sse object createChannel()
\* returns: it is told apart by its identity and holds its activeSessions.

\* Strings are sequences of characters.
ResourceIds == {<<>>, <<"a">>, <<"a", ":", "a">>}
Affixes == {<<>>, <<"a">>}
ChannelIds == 1..MaxChannels
\* The events a caller publishes.
Events == {"first", "second"}
SessionIds == 1..MaxSessions

\* parts.join(":")
RECURSIVE join(_)
join(parts) ==
  IF parts = <<>> THEN <<>>
  ELSE IF Len(parts) = 1 THEN parts[1]
  ELSE parts[1] \o <<":">> \o join(Tail(parts))

\* buildChannelKey(resourceId): [keyPrefix, resourceId, keySuffix].filter(Boolean).join(":")
buildChannelKey(r, resourceId) ==
  join(SelectSeq(<<r.keyPrefix, resourceId, r.keySuffix>>, LAMBDA part : part # <<>>))

\* The manager's state as one record.
CurR ==
  [keyPrefix |-> keyPrefix, keySuffix |-> keySuffix, channels |-> channels,
   nChannels |-> nChannels, activeSessions |-> activeSessions, sessions |-> sessions,
   lastCall |-> lastCall]

SetR(r) ==
  /\ keyPrefix' = r.keyPrefix
  /\ keySuffix' = r.keySuffix
  /\ channels' = r.channels
  /\ nChannels' = r.nChannels
  /\ activeSessions' = r.activeSessions
  /\ sessions' = r.sessions
  /\ lastCall' = r.lastCall
  /\ UNCHANGED <<hookVars, broadcasterVars, sseVars, utilVars>>

\* A call on the manager and what it returned: a Channel, a count, or nothing (0);
\* event is the event passed to publish ("" for the other calls), and broadcast lists
\* the calls of Channel.broadcast made during the call.
returns(r, op, resourceId, value) ==
  [r EXCEPT !.lastCall = [op |-> op, resourceId |-> resourceId, event |-> "",
                          value |-> value, broadcast |-> <<>>]]

NoCall == [op |-> "none", resourceId |-> <<>>, event |-> "", value |-> 0, broadcast |-> <<>>]

\* channel.broadcast(event, eventName), as the call the Channel receives.
broadcast(channel, event, eventName) ==
  [channel |-> channel, event |-> event, eventName |-> eventName]

\* channels.get(channelKey): the Channel, or 0 for undefined.
get(r, channelKey) == IF channelKey \in DOMAIN r.channels THEN r.channels[channelKey] ELSE 0

\* getChannel with a defect: a Channel is created at every call.
getChannel_alwaysCreates(r, resourceId) ==
  LET channelKey == buildChannelKey(r, resourceId)
      channel == r.nChannels + 1
  IN returns([r EXCEPT !.nChannels = channel,
                        !.channels = [k \in DOMAIN @ \cup {channelKey} |->
                                        IF k = channelKey THEN channel ELSE @[k]]],
              "getChannel", resourceId, channel)

\* getChannel(resourceId)
getChannel(r, resourceId) ==
  LET channelKey == buildChannelKey(r, resourceId)
      channel == r.nChannels + 1
  IN IF get(r, channelKey) # 0
     THEN returns(r, "getChannel", resourceId, get(r, channelKey))
     ELSE returns([r EXCEPT !.nChannels = channel,
                             !.channels = [k \in DOMAIN @ \cup {channelKey} |->
                                             IF k = channelKey THEN channel ELSE @[k]]],
                   "getChannel", resourceId, channel)

\* publish with a defect: the channel is looked up and nothing is broadcast when the
\* key has none.
managerPublish_lookupOnly(r, resourceId, event) ==
  LET channel == get(r, buildChannelKey(r, resourceId))
      r1 == [returns(r, "publish", resourceId, 0) EXCEPT !.lastCall.event = event]
  IN IF channel # 0
     THEN [r1 EXCEPT !.lastCall.broadcast = <<broadcast(channel, event, "message")>>]
     ELSE r1

\* The manager's publish(resourceId, event): getChannel(resourceId).broadcast(event, "message")
managerPublish(r, resourceId, event) ==
  LET r1 == getChannel(r, resourceId)
      channel == r1.lastCall.value
  IN [returns(r1, "publish", resourceId, 0)
        EXCEPT !.lastCall.event = event,
               !.lastCall.broadcast = <<broadcast(channel, event, "message")>>]

\* getSessionCount with a defect: the channel is resolved with getChannel, which
\* creates it when the key has none.
getSessionCount_creates(r, resourceId) ==
  LET r1 == getChannel(r, resourceId)
  IN returns(r1, "getSessionCount", resourceId,
              Cardinality(r1.activeSessions[r1.lastCall.value]))

\* getSessionCount(resourceId)
getSessionCount(r, resourceId) ==
  LET channel == get(r, buildChannelKey(r, resourceId))
  IN returns(r, "getSessionCount", resourceId,
              IF channel # 0 THEN Cardinality(r.activeSessions[channel]) ELSE 0)

\* cleanupIfEmpty with a defect: the channel is removed whether or not it has sessions.
cleanupIfEmpty_ignoresSessions(r, resourceId) ==
  LET channelKey == buildChannelKey(r, resourceId)
      channel == get(r, channelKey)
      r1 == returns(r, "cleanupIfEmpty", resourceId, 0)
  IN IF channel # 0
     THEN [r1 EXCEPT !.channels = [k \in DOMAIN @ \ {channelKey} |-> @[k]]]
     ELSE r1

\* cleanupIfEmpty with a defect: a channel with one session left is removed too.
cleanupIfEmpty_atMostOne(r, resourceId) ==
  LET channelKey == buildChannelKey(r, resourceId)
      channel == get(r, channelKey)
      r1 == returns(r, "cleanupIfEmpty", resourceId, 0)
  IN IF channel # 0 /\ Cardinality(r.activeSessions[channel]) <= 1
     THEN [r1 EXCEPT !.channels = [k \in DOMAIN @ \ {channelKey} |-> @[k]]]
     ELSE r1

\* cleanupIfEmpty with a defect: the entry of an empty channel is kept.
cleanupIfEmpty_keepsEntry(r, resourceId) ==
  returns(r, "cleanupIfEmpty", resourceId, 0)

\* cleanupIfEmpty(resourceId)
cleanupIfEmpty(r, resourceId) ==
  LET channelKey == buildChannelKey(r, resourceId)
      channel == get(r, channelKey)
      r1 == returns(r, "cleanupIfEmpty", resourceId, 0)
  IN IF channel # 0 /\ Cardinality(r.activeSessions[channel]) = 0
     THEN [r1 EXCEPT !.channels = [k \in DOMAIN @ \ {channelKey} |-> @[k]]]
     ELSE r1

\* A session of the route handler: the params of its request, the channel its
\* callback holds, and whether it is connected.
NoSession == [state |-> "none", resourceId |-> <<>>, channel |-> 0]

\* A session whose "disconnected" listener has run: the callback's session, channel
\* and params are no longer referenced.
Gone == [state |-> "disconnected", resourceId |-> <<>>, channel |-> 0]

\* The callback createResponse runs for a new session s: getChannel(params), then
\* channel.register(session).
connected(r, s, resourceId) ==
  LET r1 == getChannel(r, resourceId)
      channel == r1.lastCall.value
  IN [r1 EXCEPT !.activeSessions[channel] = @ \cup {s},
                !.sessions[s] = [state |-> "connected", resourceId |-> resourceId,
                                 channel |-> channel]]

\* disconnected with a defect: onDisconnect is called before channel.deregister(session).
disconnected_onDisconnectFirst(r, s, wired) ==
  LET channel == r.sessions[s].channel
      r1 == IF wired THEN cleanupIfEmpty(r, r.sessions[s].resourceId)
            ELSE [r EXCEPT !.lastCall = NoCall]
  IN [r1 EXCEPT !.activeSessions[channel] = @ \ {s},
                !.sessions[s] = Gone]

\* The "disconnected" listener of session s: channel.deregister(session), then
\* onDisconnect(params) when the route is configured with one; wired says that it is,
\* and that it calls cleanupIfEmpty(resourceId) as the documentation shows.
disconnected(r, s, wired) ==
  LET channel == r.sessions[s].channel
      r1 == [r EXCEPT !.activeSessions[channel] = @ \ {s},
                      !.sessions[s] = Gone,
                      !.lastCall = NoCall]
  IN IF wired THEN cleanupIfEmpty(r1, r.sessions[s].resourceId) ELSE r1

RegistryInit ==
  /\ keyPrefix \in Affixes
  /\ keySuffix \in Affixes
  /\ channels = <<>>
  /\ nChannels = 0
  /\ activeSessions = [c \in ChannelIds |-> {}]
  /\ sessions = [s \in SessionIds |-> NoSession]
  /\ lastCall = NoCall

\* A call that may create a Channel is made only below the bound on createChannel().
CanCreate(resourceId) ==
  get(CurR, buildChannelKey(CurR, resourceId)) = 0 => nChannels < MaxChannels

GetChannel(resourceId) ==
  /\ CanCreate(resourceId)
  /\ SetR(getChannel(CurR, resourceId))

PublishTo(resourceId, event) ==
  /\ CanCreate(resourceId)
  /\ SetR(managerPublish(CurR, resourceId, event))

GetSessionCount(resourceId) ==
  /\ resourceId \in ResourceIds
  /\ SetR(getSessionCount(CurR, resourceId))

CleanupIfEmpty(resourceId) ==
  /\ resourceId \in ResourceIds
  /\ SetR(cleanupIfEmpty(CurR, resourceId))

\* A client connects: the route handler's callback runs for a new session.
Connect(s, resourceId) ==
  /\ sessions[s].state = "none"
  /\ \A q \in SessionIds : q < s => sessions[q].state # "none"
  /\ CanCreate(resourceId)
  /\ SetR(connected(CurR, s, resourceId))

\* A client goes away: the session's "disconnected" event.
Disconnect(s, wired) ==
  /\ sessions[s].state = "connected"
  /\ SetR(disconnected(CurR, s, wired))

NextRegistry ==
  \/ \E k \in ResourceIds : GetChannel(k)
  \/ \E k \in ResourceIds, event \in Events : PublishTo(k, event)
  \/ \E k \in ResourceIds : GetSessionCount(k)
  \/ \E k \in ResourceIds : CleanupIfEmpty(k)
  \/ \E s \in SessionIds, k \in ResourceIds : Connect(s, k)
  \/ \E s \in SessionIds, wired \in BOOLEAN : Disconnect(s, wired)

----------------------------------------------------------------------------
\* useSSEConnection and useSSEQueryInvalidation.

\* JavaScript values, each with its typeof/Array.isArray tag t: strings (s), booleans
\* (n is 1 for true), arrays (v their elements), the event objects {id: n}, undefined,
\* and functions of the event (v[n] what the function returns for the event {id: n}).
Val(t, s, n, v) == [t |-> t, s |-> s, n |-> n, v |-> v]
Str(s) == Val("string", s, 0, <<>>)
Bool(b) == Val("boolean", "", IF b THEN 1 ELSE 0, <<>>)
Arr(v) == Val("array", "", 0, v)
Obj(id) == Val("object", "", id, <<>>)
Fn(v) == Val("function", "", 0, v)
Undefined == Val("undefined", "", 0, <<>>)

\* The data of a message event: two JSON texts of events, and two texts that are not
\* JSON.
Messages == {"{\"id\":1}", "{\"id\":2}", "not valid json{", ""}

\* JSON.parse(text): the value, or threw.
JSONparse(text) ==
  IF text = "{\"id\":1}" THEN [threw |-> FALSE, value |-> Obj(1)]
  ELSE IF text = "{\"id\":2}" THEN [threw |-> FALSE, value |-> Obj(2)]
  ELSE [threw |-> TRUE, value |-> Undefined]

\* Query keys, and the values the option queryKeys takes: a single key, arrays of
\* keys (the empty one included), functions of the event.
CommentsKey == Arr(<<Str("comments"), Str("123")>>)
CountsKey == Arr(<<Str("counts"), Str("123")>>)
QueryKeyOptions ==
  {Arr(<<>>), CommentsKey, Arr(<<CommentsKey>>), Arr(<<CommentsKey, CountsKey>>),
   Fn(<<Arr(<<>>), Arr(<<CommentsKey, CountsKey>>)>>),
   Fn(<<CountsKey, Undefined>>)}

\* A call the hooks make, with its argument.
call(cb, arg) == [cb |-> cb, arg |-> arg]

\* onEvent of useSSEQueryInvalidation without the guard on the keys.
onEvent_noGuard(keys, event) ==
  LET keysToInvalidate == IF keys.t = "function" THEN keys.v[event.n] ELSE keys
      first == IF Len(keysToInvalidate.v) > 0 THEN keysToInvalidate.v[1] ELSE Undefined
      keyArray == IF first.t = "array" THEN keysToInvalidate.v ELSE <<keysToInvalidate>>
  IN [i \in 1..Len(keyArray) |-> call("invalidateQueries", keyArray[i])]

\* onEvent of useSSEQueryInvalidation: the invalidateQueries calls it makes.
onEvent(keys, event) ==
  LET keysToInvalidate == IF keys.t = "function" THEN keys.v[event.n] ELSE keys
      keyArray == IF keysToInvalidate.v[1].t = "array"
                  THEN keysToInvalidate.v ELSE <<keysToInvalidate>>
  IN IF keysToInvalidate.t = "undefined" \/ Len(keysToInvalidate.v) = 0
     THEN <<>>
     ELSE [i \in 1..Len(keyArray) |-> call("invalidateQueries", keyArray[i])]

\* eventSource.onmessage with a defect: the data is handed to onEvent unparsed.
onmessage_noParse(keys, data) ==
  <<call("onEvent", Str(data))>>

\* eventSource.onmessage: JSON.parse, then onEvent; a throw is caught and logged.
onmessage(keys, data) ==
  LET parsed == JSONparse(data)
  IN IF parsed.threw
     THEN <<call("console.error", Str("Failed to parse SSE event:"))>>
     ELSE <<call("onEvent", parsed.value)>> \o onEvent(keys, parsed.value)

\* eventSource.onopen
onopen(c) == [c EXCEPT !.connected = TRUE, !.eventSource = "OPEN"]

\* eventSource.onerror; the EventSource reconnects unless the error is fatal.
onerror(c, fatal) ==
  [c EXCEPT !.connected = FALSE, !.eventSource = IF fatal THEN "CLOSED" ELSE "CONNECTING"]

\* The cleanup of the connection effect; an effect that returned early has none.
sseCleanup(c) ==
  IF c.eventSource = "null" THEN c
  ELSE [c EXCEPT !.eventSource = "null", !.connected = FALSE]

\* The connection effect, run with the option enabled.
sseEffect(c) ==
  IF ~c.enabled THEN c ELSE [c EXCEPT !.eventSource = "CONNECTING"]

SSEInit ==
  /\ sse = [comp |-> "init", enabled |-> TRUE, connected |-> FALSE, eventSource |-> "null"]
  /\ queryKeys = Arr(<<>>)
  /\ received = <<>>
  /\ sseFired = <<>>

SSEMount ==
  /\ sse.comp = "init"
  /\ sse' = sseEffect([sse EXCEPT !.comp = "mounted"])
  /\ sseFired' = <<>>
  /\ UNCHANGED <<queryKeys, received>>
  /\ UNCHANGED <<hookVars, broadcasterVars, registryVars, utilVars>>

SSESetEnabled(b) ==
  /\ sse.comp = "mounted"
  /\ b # sse.enabled
  /\ sse' = sseEffect([sseCleanup(sse) EXCEPT !.enabled = b])
  /\ sseFired' = IF sse.eventSource # "null" THEN <<call("close", Undefined)>> ELSE <<>>
  /\ UNCHANGED <<queryKeys, received>>
  /\ UNCHANGED <<hookVars, broadcasterVars, registryVars, utilVars>>

SSEUnmount ==
  /\ sse.comp = "mounted"
  /\ sse' = [sseCleanup(sse) EXCEPT !.comp = "unmounted"]
  /\ sseFired' = IF sse.eventSource # "null" THEN <<call("close", Undefined)>> ELSE <<>>
  /\ UNCHANGED <<queryKeys, received>>
  /\ UNCHANGED <<hookVars, broadcasterVars, registryVars, utilVars>>

SSEOpen ==
  /\ sse.eventSource = "CONNECTING"
  /\ sse' = onopen(sse)
  /\ sseFired' = <<call("onConnectionChange", Bool(TRUE))>>
  /\ UNCHANGED <<queryKeys, received>>
  /\ UNCHANGED <<hookVars, broadcasterVars, registryVars, utilVars>>

SSEError(fatal) ==
  /\ sse.eventSource \in {"CONNECTING", "OPEN"}
  /\ sse' = onerror(sse, fatal)
  /\ sseFired' = <<call("onConnectionChange", Bool(FALSE)), call("onError", Obj(0))>>
  /\ UNCHANGED <<queryKeys, received>>
  /\ UNCHANGED <<hookVars, broadcasterVars, registryVars, utilVars>>

\* A message event of the open EventSource.
SSEMessage(data) ==
  /\ sse.eventSource = "OPEN"
  /\ Len(received) < MaxMessages
  /\ received' = Append(received, data)
  /\ sseFired' = onmessage(queryKeys, data)
  /\ UNCHANGED <<sse, queryKeys>>
  /\ UNCHANGED <<hookVars, broadcasterVars, registryVars, utilVars>>

NextSSE ==
  \/ SSEMount
  \/ \E b \in BOOLEAN : SSESetEnabled(b)
  \/ SSEUnmount
  \/ SSEOpen
  \/ \E fatal \in BOOLEAN : SSEError(fatal)
  \/ \E data \in Messages : SSEMessage(data)

----------------------------------------------------------------------------
\* createEventBroadcaster (src/server/events.ts).

\* The configs a caller passes: the two types of BroadcasterConfig, a type that is
\* none of them, and no type at all; maxListeners given or not.
BroadcasterTypes == {"memory", "redis", "invalid", "undefined"}
MaxListenersOptions == {-1, 0, 100}
BroadcasterConfigs ==
  [type : BroadcasterTypes, hasMaxListeners : BOOLEAN, maxListeners : MaxListenersOptions]

\* What a call did: it returned a broadcaster (of the kind named) or threw an Error
\* with the message.
returned(config, kind, maxListeners) ==
  [config |-> config, result |-> "broadcaster", kind |-> kind,
   maxListeners |-> maxListeners, message |-> <<>>]
thrown(config, message) ==
  [config |-> config, result |-> "threw", kind |-> "none", maxListeners |-> 0,
   message |-> message]

\* createMemoryBroadcaster(config): emitter.setMaxListeners(config.maxListeners ?? 100)
\* throws a RangeError for a negative number.
createMemoryBroadcaster(config) ==
  LET n == IF config.hasMaxListeners THEN config.maxListeners ELSE 100
  IN IF n < 0
     THEN thrown(config, <<"RangeError">>)
     ELSE returned(config, "memory", n)

\* createRedisBroadcaster(config)
createRedisBroadcaster(config) ==
  thrown(config, <<"Redis broadcaster not yet implemented. Install @upstash/redis and implement using the pattern from the documentation.">>)

\* createEventBroadcaster with a defect: a type it does not know gets the memory
\* broadcaster.
createEventBroadcaster_defaultsToMemory(config) ==
  IF config.type = "redis" THEN createRedisBroadcaster(config)
  ELSE createMemoryBroadcaster(config)

\* createEventBroadcaster(config)
createEventBroadcaster(config) ==
  IF config.type = "memory" THEN createMemoryBroadcaster(config)
  ELSE IF config.type = "redis" THEN createRedisBroadcaster(config)
  ELSE thrown(config, <<"Unknown broadcaster type: ", config.type>>)

CreateEventBroadcaster(config) ==
  /\ Len(created) < MaxCreated
  /\ created' = Append(created, createEventBroadcaster(config))
  /\ UNCHANGED backoff
  /\ UNCHANGED <<hookVars, broadcasterVars, registryVars, sseVars>>

NextFactory == \E config \in BroadcasterConfigs : CreateEventBroadcaster(config)

----------------------------------------------------------------------------
\* Calls of the backoff utilities (src/utils/exponentialBackoff.ts, src/utils/jitter.ts).

\* The arguments the calls are made with.
Attempts == 0..MaxAttempt \cup {OverflowExponent}
BaseDelays == {0, 1, 1000}
MaxDelays == {1, 1000, 30000}
JitterPercents == {0, 10, 25, 100}

NoBackoffCall ==
  [fn |-> "none", attempt |-> 0, baseDelay |-> 0, maxDelay |-> 0, jitterPercent |-> 0,
   random |-> 0, result |-> 0]

UtilInit ==
  /\ created = <<>>
  /\ backoff = NoBackoffCall

CalculateBackoff(attempt, base, max) ==
  /\ backoff' = [fn |-> "calculateBackoff", attempt |-> attempt, baseDelay |-> base,
                 maxDelay |-> max, jitterPercent |-> 0, random |-> 0,
                 result |-> calculateBackoff(attempt, base, max)]
  /\ UNCHANGED created
  /\ UNCHANGED <<hookVars, broadcasterVars, registryVars, sseVars>>

CalculateBackoffWithJitter(attempt, base, max, percent, r) ==
  /\ backoff' = [fn |-> "calculateBackoffWithJitter", attempt |-> attempt,
                 baseDelay |-> base, maxDelay |-> max, jitterPercent |-> percent,
                 random |-> r,
                 result |-> calculateBackoffWithJitter(attempt, base, max, percent, r)]
  /\ UNCHANGED created
  /\ UNCHANGED <<hookVars, broadcasterVars, registryVars, sseVars>>

NextBackoff ==
  \/ \E attempt \in Attempts, base \in BaseDelays, max \in MaxDelays :
       CalculateBackoff(attempt, base, max)
  \/ \E attempt \in Attempts, base \in BaseDelays, max \in MaxDelays,
        percent \in JitterPercents, r \in Randoms :
       CalculateBackoffWithJitter(attempt, base, max, percent, r)

----------------------------------------------------------------------------
\* What the environment decides when streamFn is called: what streamFn does, and, when
\* it throws, what shouldRetry returns (it is not consulted otherwise).
Kinds == {"throw", "generator", "promise"}
Calls == {c \in Kinds \X BOOLEAN : c[1] # "throw" => c[2]}

MaxRetriesValues == (0..MaxRetriesBound) \cup {Infinity}

HookInit ==
  /\ comp = "init"
  /\ enabled \in BOOLEAN
  /\ pauseOnHidden \in BOOLEAN
  /\ isVisible \in BOOLEAN
  /\ maxRetries \in MaxRetriesValues
  /\ extAborted = FALSE
  /\ tasks = [t \in TaskIds |-> NoTask]
  /\ abortControllerRef = 0
  /\ timers = <<>>
  /\ currentAttemptRef = 0
  /\ isConnected = FALSE
  /\ isReconnecting = FALSE
  /\ reconnectAttempt = 0
  /\ error = "null"
  /\ factoryCalls = 0
  /\ nMaxReached = 0
  /\ fired = <<>>
  /\ firedBy = NoOne

\* The manager created with no prefix and no suffix (the defaults), nothing called yet.
RegistryDefaults == RegistryInit /\ keyPrefix = <<>> /\ keySuffix = <<>>

Init == HookInit /\ BroadcasterInit /\ RegistryDefaults /\ SSEInit /\ UtilInit

\* The hook rendered with the defaults of its options, before its effect has run.
HookDefaults == HookInit /\ enabled /\ pauseOnHidden /\ isVisible /\ maxRetries = Infinity

\* The bound on streamFn invocations: an action that calls it is taken only below the
\* bound, and what streamFn and shouldRetry do is drawn only when streamFn is called.
CanCall(calls, kind, sr) ==
  /\ calls => factoryCalls < MaxCalls
  /\ ~calls => (kind = "promise" /\ sr)

\* A render whose dependencies changed: the old closure's cleanup, then the effect again.
rerun(s, kind, sr) == effect(cleanup(s), kind, sr)

\* The first commit: the effect runs.
Mount(kind, sr) ==
  /\ comp = "init"
  /\ CanCall(shouldStream(Cur), kind, sr)
  /\ Set(effect([Begin EXCEPT !.comp = "mounted"], kind, sr))

\* visibilitychange: usePageVisibility re-renders the component.
SetVisible(v, kind, sr) ==
  /\ comp = "mounted"
  /\ isVisible # v
  /\ LET s1 == [called(Begin, "handleVisibilityChange") EXCEPT !.isVisible = v]
         reruns == shouldStream(s1) # shouldStream(Cur)
     IN /\ CanCall(reruns /\ shouldStream(s1), kind, sr)
        /\ Set(IF reruns THEN rerun(s1, kind, sr) ELSE s1)

\* The parent renders the hook with another value of enabled.
SetEnabled(v, kind, sr) ==
  /\ comp = "mounted"
  /\ enabled # v
  /\ LET s1 == [Begin EXCEPT !.enabled = v]
         reruns == shouldStream(s1) # shouldStream(Cur)
     IN /\ CanCall(reruns /\ shouldStream(s1), kind, sr)
        /\ Set(IF reruns THEN rerun(s1, kind, sr) ELSE s1)

\* The parent renders the hook with another identity of a callback, params or option
\* of the dependency list (same values).
DepsChange(kind, sr) ==
  /\ comp = "mounted"
  /\ CanCall(shouldStream(Cur), kind, sr)
  /\ Set(rerun(Begin, kind, sr))

Unmount ==
  /\ comp = "mounted"
  /\ Set(cleanup([Begin EXCEPT !.comp = "unmounted"]))

Reconnect ==
  /\ comp = "mounted"
  /\ Set(reconnect(Begin))

ExternalAbort ==
  /\ ~extAborted
  /\ Set([Begin EXCEPT !.extAborted = TRUE])

\* What shouldRetry returns is drawn only when the catch branch gets to consult it.
Consulted(t, sr) == (~tasks[t].isMounted \/ combinedAborted(Cur, t)) => sr

\* The promise streamFn returned resolves to a stream.
ResolveFactory(t) ==
  /\ tasks[t].pc = "factory"
  /\ Set(streamObtained(Begin, t))

\* The promise streamFn returned rejects.
RejectFactory(t, sr) ==
  /\ tasks[t].pc = "factory"
  /\ Consulted(t, sr)
  /\ Set(catchBranch(Begin, t, sr))

StreamItem(t) ==
  /\ tasks[t].pc = "iter"
  /\ Set(streamYield(Begin, t))

StreamEnd(t) ==
  /\ tasks[t].pc = "iter"
  /\ Set(streamDone(Begin, t))

StreamThrow(t, sr) ==
  /\ tasks[t].pc = "iter"
  /\ Consulted(t, sr)
  /\ Set(catchBranch(Begin, t, sr))

TimerFire(i, kind, sr) ==
  /\ i \in DOMAIN timers
  /\ CanCall(timers[i].isMounted /\ shouldStream(Cur), kind, sr)
  /\ Set(timeoutCallback(Begin, i, kind, sr))

Next ==
  \/ \E c \in Calls : Mount(c[1], c[2])
  \/ \E v \in BOOLEAN, c \in Calls : SetVisible(v, c[1], c[2])
  \/ \E v \in BOOLEAN, c \in Calls : SetEnabled(v, c[1], c[2])
  \/ \E c \in Calls : DepsChange(c[1], c[2])
  \/ Unmount
  \/ Reconnect
  \/ ExternalAbort
  \/ \E t \in TaskIds : ResolveFactory(t)
  \/ \E t \in TaskIds, sr \in BOOLEAN : RejectFactory(t, sr)
  \/ \E t \in TaskIds : StreamItem(t)
  \/ \E t \in TaskIds : StreamEnd(t)
  \/ \E t \in TaskIds, sr \in BOOLEAN : StreamThrow(t, sr)
  \/ \E i \in 1..MaxCalls, c \in Calls : TimerFire(i, c[1], c[2])

Spec == Init /\ [][Next]_vars

\* The broadcaster on its own: subscribers and publishers in any interleaving.
InitBroadcaster == HookDefaults /\ BroadcasterInit /\ RegistryDefaults /\ SSEInit /\ UtilInit
SpecBroadcaster == InitBroadcaster /\ [][NextBroadcaster]_vars

\* The broadcaster with consumers that take one event at a time and call return() only
\* on a subscription suspended at its yield, as `for await` with a break does and as the
\* tests do after awaiting the event: no return() while a next() is pending.
Break(s) ==
  /\ subs[s].pc = "yield"
  /\ Close(s)

NextForAwait ==
  \/ \E s \in SubIds, c \in Topics : Subscribe(s, c)
  \/ \E s \in SubIds : Pull(s)
  \/ \E s \in SubIds : Break(s)
  \/ \E s \in SubIds : Resume(s)
  \/ \E s \in SubIds : KeepAlive(s)
  \/ \E c \in Topics, x \in 0..MaxPublishes : Publish(c, x)

SpecForAwait == InitBroadcaster /\ [][NextForAwait]_vars

\* The channel manager on its own: its callers and the route handler's sessions.
InitRegistry == HookDefaults /\ BroadcasterInit /\ RegistryInit /\ SSEInit /\ UtilInit
SpecRegistry == InitRegistry /\ [][NextRegistry]_vars

\* The route handler as the documentation wires it (onDisconnect calls cleanupIfEmpty
\* of the session's resource), with a server that only publishes: clients connect and
\* disconnect, events are published, and nothing else calls the manager.
NextWiredRoute ==
  \/ \E s \in SessionIds, k \in ResourceIds : Connect(s, k)
  \/ \E s \in SessionIds : Disconnect(s, TRUE)
  \/ \E k \in ResourceIds, event \in Events : PublishTo(k, event)

SpecWiredRoute == InitRegistry /\ [][NextWiredRoute]_vars

\* The client hooks on their own: useSSEQueryInvalidation rendered with any value of
\* its options queryKeys and enabled.
InitSSE ==
  /\ HookDefaults /\ BroadcasterInit /\ RegistryDefaults /\ UtilInit
  /\ sse \in [comp : {"init"}, enabled : BOOLEAN, connected : {FALSE}, eventSource : {"null"}]
  /\ queryKeys \in QueryKeyOptions
  /\ received = <<>>
  /\ sseFired = <<>>
SpecSSE == InitSSE /\ [][NextSSE]_vars

\* The functions without state, called with any of their arguments.
InitUtil == HookDefaults /\ BroadcasterInit /\ RegistryDefaults /\ SSEInit /\ UtilInit
SpecFactory == InitUtil /\ [][NextFactory]_vars
SpecBackoff == InitUtil /\ [][NextBackoff]_vars

----------------------------------------------------------------------------
\* The scenario of a stream factory that fails immediately (it throws, or the promise it
\* returned rejects) some number of times and then succeeds, with shouldRetry always
\* true and the hook enabled and active (shouldStream); the stream obtained delivers
\* events and does not end, and nothing else happens.
InitFailThenSucceed == Init /\ shouldStream(Cur)

NextFailThenSucceed ==
  \/ \E kind \in Kinds : Mount(kind, TRUE)
  \/ \E t \in TaskIds : ResolveFactory(t)
  \/ \E t \in TaskIds : RejectFactory(t, TRUE)
  \/ \E t \in TaskIds : StreamItem(t)
  \/ \E i \in 1..MaxCalls, kind \in Kinds : TimerFire(i, kind, TRUE)

SpecFailThenSucceed == InitFailThenSucceed /\ [][NextFailThenSucceed]_vars

----------------------------------------------------------------------------
\* Vocabulary of the properties.
Called(cb) == \E i \in DOMAIN fired : fired[i].cb = cb
InFlightTasks == {t \in TaskIds : InFlight(tasks[t])}
Iterating == {t \in TaskIds : tasks[t].pc = "iter"}
\* The streamFn calls that have failed so far, when no stream has ended or thrown.
FailedCalls == factoryCalls - Cardinality(InFlightTasks)
\* Nothing is left that could act: no invocation in flight, no timer armed.
Stopped == comp = "mounted" /\ factoryCalls > 0 /\ InFlightTasks = {} /\ timers = <<>>

\* C1: with a factory that fails k times and then succeeds, the hook ends connected with
\* attempt = k when k <= maxRetries (the stream is being iterated, no timer is armed);
\* otherwise it stops, not connected and with no timer armed, after exactly
\* maxRetries + 1 streamFn calls and exactly one onMaxRetriesReached call.
C1_FailKThenSucceed ==
  /\ Iterating # {} =>
       /\ isConnected
       /\ reconnectAttempt = FailedCalls
       /\ currentAttemptRef = FailedCalls
       /\ FailedCalls <= maxRetries
       /\ timers = <<>>
       /\ nMaxReached = 0
  /\ Stopped =>
       /\ ~isConnected
       /\ FailedCalls = maxRetries + 1
       /\ factoryCalls = maxRetries + 1
       /\ nMaxReached = 1
  /\ nMaxReached > 0 => Stopped

C1_Witness_Connected == Iterating # {} /\ isConnected /\ reconnectAttempt = 1 /\ maxRetries = 1

----------------------------------------------------------------------------
OptionCallbacks == {"onData", "onConnect", "onDisconnect", "onError", "onMaxRetriesReached"}

\* C2: no option callback is invoked by a closure that has been torn down (its effect's
\* cleanup has run), whatever was in flight at teardown and however it completes.
C2_NoCallbackAfterTeardown ==
  \A i \in DOMAIN fired : fired[i].cb \in OptionCallbacks => firedBy.isMounted

\* The page is hidden and the hook, enabled with pauseOnHidden, is paused by it.
Paused == comp = "mounted" /\ enabled /\ pauseOnHidden /\ ~isVisible

\* C3: going inactive cancels the stream in flight and the pending timer and parks the
\* hook in Idle, where it stays while the page is hidden: every step that ends in a
\* paused state ends with isConnected and isReconnecting false, no timer armed and every
\* invocation in flight aborted, has invoked neither onError nor onDisconnect, and, unless
\* it is a reconnect() call, has left the attempt counter unchanged.
C3_PauseParksInIdle ==
  [][Paused' =>
       /\ ~isConnected' /\ ~isReconnecting'
       /\ timers' = <<>>
       /\ \A t \in TaskIds : InFlight(tasks'[t]) => tasks'[t].aborted
       /\ \A i \in DOMAIN fired' : fired'[i].cb \notin {"onError", "onDisconnect"}
       /\ (\A i \in DOMAIN fired' : fired'[i].cb # "reconnect")
            => currentAttemptRef' = currentAttemptRef]_vars

\* An invocation in flight that a teardown, a pause or reconnect() has cancelled.
Cancelled(t) == InFlight(tasks[t]) /\ (~tasks[t].isMounted \/ tasks[t].aborted)

\* C5: one cancellation aborts the work at each suspension point: a cancelled invocation
\* is never parked on a stream (a pending streamFn call does not become a consumed
\* connection, a parked stream is closed by the cancellation itself), and no timer of a
\* torn-down closure stays armed.
C5_CancelAbortsEverySuspensionPoint ==
  /\ \A t \in TaskIds : Cancelled(t) => tasks[t].pc # "iter"
  /\ \A i \in DOMAIN timers : timers[i].isMounted

\* Something is left that will call streamFn without any render: a timer armed by the
\* mounted closure, or an invocation of it in flight and not aborted (whose end or
\* failure schedules a reconnect).  streamFn is called by nothing else but an effect run.
ConnectUnderway ==
  \/ \E i \in DOMAIN timers : timers[i].isMounted
  \/ \E t \in TaskIds : InFlight(tasks[t]) /\ tasks[t].isMounted /\ ~tasks[t].aborted

\* C7: reconnect() called while the hook is enabled and active leads to a new connection
\* attempt with no change of options, params or callbacks: after the call a connect is
\* under way or scheduled.
C7_ReconnectLeadsToConnect ==
  (Called("reconnect") /\ comp = "mounted" /\ shouldStream(Cur) /\ ~extAborted
     /\ factoryCalls < MaxCalls)
    => (Called("streamFn") \/ ConnectUnderway)

\* C9: the attempt counter never exceeds maxRetries.
C9_AttemptAtMostMaxRetries == currentAttemptRef <= maxRetries

----------------------------------------------------------------------------
NoReconnectCall(f) == \A i \in DOMAIN f : f[i].cb # "reconnect"

\* C4: a visibility pause leaves the attempt counter alone (unless reconnect() is called
\* during it), and the step that makes the page visible again, the hook still enabled,
\* invokes streamFn once more, from the mounted closure, with the attempt counter at the
\* value it had during the pause.
C4_ResumeStartsFreshConnecting ==
  [][/\ (Paused /\ Paused' /\ NoReconnectCall(fired'))
          => currentAttemptRef' = currentAttemptRef
     /\ (Paused /\ isVisible' /\ enabled' /\ comp' = "mounted")
          => /\ factoryCalls' = factoryCalls + 1
             /\ firedBy'.isMounted
             /\ \E i \in DOMAIN fired' :
                   /\ fired'[i].cb = "streamFn"
                   /\ fired'[i].attempt = currentAttemptRef]_vars

\* The page became visible again after a pause that began with attempt >= 1, and
\* streamFn was called.
C4_Witness_ResumedAfterRetries ==
  /\ Called("handleVisibilityChange") /\ pauseOnHidden /\ enabled /\ isVisible
  /\ \E i \in DOMAIN fired : fired[i].cb = "streamFn" /\ fired[i].attempt >= 1

\* C6: right after reconnect() the attempt counter (ref and state) is 0 and the error
\* is null, every invocation in flight has its controller aborted, and no timer is
\* armed, so that no timer armed before the call can start a connect after it; and an
\* invocation whose signal is aborted delivers no event, disconnect or error.
C6_ReconnectResets ==
  /\ Called("reconnect") =>
       /\ currentAttemptRef = 0
       /\ reconnectAttempt = 0
       /\ error = "null"
       /\ timers = <<>>
       /\ \A t \in TaskIds : InFlight(tasks[t]) => tasks[t].aborted
  /\ \A i \in DOMAIN fired :
       fired[i].cb \in {"onData", "onDisconnect", "onError", "onMaxRetriesReached"}
         => ~firedBy.aborted

\* reconnect() was called on a connection of the mounted closure made after a retry.
C6_Witness_ReconnectAfterRetry ==
  /\ Called("reconnect")
  /\ \E t \in TaskIds : InFlight(tasks[t]) /\ tasks[t].isMounted /\ tasks[t].att >= 1

\* shouldRetry was consulted by the last action and returned false.
RetryRefused == \E i \in DOMAIN fired : fired[i].cb = "shouldRetry" /\ ~fired[i].res

\* C8 as stated: when shouldRetry returns false the hook stops, no reconnect is scheduled
\* and onMaxRetriesReached is not invoked, whatever attempt and maxRetries are.
C8_RefusalNeverReportsMaxRetries ==
  RetryRefused => (~isConnected /\ timers = <<>> /\ ~Called("onMaxRetriesReached"))

\* C8 amended: when shouldRetry returns false the hook stops and no reconnect is
\* scheduled; onMaxRetriesReached is then invoked exactly when attempt >= maxRetries,
\* and it is never invoked with attempt < maxRetries.
C8_RefusalStopsCapStillReported ==
  /\ RetryRefused =>
       /\ ~isConnected
       /\ timers = <<>>
       /\ Called("onMaxRetriesReached") <=> currentAttemptRef >= maxRetries
  /\ Called("onMaxRetriesReached") => currentAttemptRef >= maxRetries

C8_Witness_RefusedAtCap ==
  RetryRefused /\ currentAttemptRef >= maxRetries /\ Called("onMaxRetriesReached")

\* C10: when the stream of the mounted closure, not aborted, ends without an error:
\* onDisconnect is the one callback invoked (so not onError), the error stays null,
\* isConnected becomes false, the attempt counter grows by one and a timer of the
\* mounted closure is armed; and when a timer of the mounted closure fires, streamFn
\* is called.
C10_GracefulEndReconnects ==
  [][/\ \A t \in TaskIds :
          (/\ tasks[t].pc = "iter" /\ tasks[t].isMounted
           /\ ~combinedAborted(Cur, t) /\ shouldStream(Cur)
           /\ StreamEnd(t))
            => /\ Len(fired') = 1 /\ fired'[1].cb = "onDisconnect"
               /\ error = "null" /\ error' = "null"
               /\ ~isConnected'
               /\ currentAttemptRef' = currentAttemptRef + 1
               /\ timers' = <<[isMounted |-> TRUE, isRef |-> TRUE,
                                attempt |-> currentAttemptRef + 1]>>
     /\ \A i \in DOMAIN timers :
          (timers[i].isMounted /\ \E c \in Calls : TimerFire(i, c[1], c[2]))
            => \E j \in DOMAIN fired' : fired'[j].cb = "streamFn"]_vars

\* A stream ended gracefully and the reconnect is scheduled.
C10_Witness_EndedAndScheduled ==
  /\ Called("onDisconnect") /\ ~Called("onError")
  /\ currentAttemptRef = 1 /\ timers # <<>> /\ error = "null"

----------------------------------------------------------------------------
\* C11: a fresh enable resets the attempt counter: the step that enables a hook that was
\* disabled calls streamFn, if it calls it, with attempt = 0, whatever the attempt was
\* when the hook was disabled.
C11_EnableResetsAttempt ==
  [][(comp = "mounted" /\ ~enabled /\ enabled')
       => \A i \in DOMAIN fired' : fired'[i].cb = "streamFn" => fired'[i].attempt = 0]_vars

\* d is within 25% of b.
WithinQuarter(d, b) == 4 * d >= 3 * b /\ 4 * d <= 5 * b

\* C12: the delay armed by a reconnect scheduled when the attempt counter is k (k
\* reconnects came before) is the backoff of attempt k with its jitter: about
\* baseDelay for the first, 2 * baseDelay for the second, 4 * baseDelay for the third,
\* capped at maxDelay, within 25%, whatever Math.random() returns.
C12_DelayIsBackoffOfPriorAttempt ==
  [][\A i \in DOMAIN timers' :
       (timers'[i].isRef /\ currentAttemptRef' = currentAttemptRef + 1)
         => \A r \in Randoms :
              WithinQuarter(calculateBackoffWithJitter(timers'[i].attempt, baseDelay,
                                                       maxDelay, JitterPercent, r),
                            calculateBackoff(currentAttemptRef, baseDelay, maxDelay))]_vars

\* C13: every onData call of one connection carries the same reconnectAttempt, the
\* attempt counter's value when the connection was made (what streamFn was called
\* with, and what the reconnectAttempt state shows since onConnect): delivering an
\* event does not change the counter.
C13_OnDataCarriesConnectionAttempt ==
  [][\A t \in TaskIds :
       (tasks[t].pc = "iter" /\ StreamItem(t))
         => /\ \A i \in DOMAIN fired' :
                 fired'[i].cb = "onData"
                   => /\ fired'[i].attempt = tasks[t].att
                      /\ fired'[i].attempt = reconnectAttempt
            /\ currentAttemptRef' = currentAttemptRef]_vars

\* An event was delivered on a connection made after one reconnect.
C13_Witness_ItemAfterReconnect ==
  /\ \E i \in DOMAIN fired : fired[i].cb = "onData" /\ fired[i].attempt = 1
  /\ \E t \in TaskIds : tasks[t].pc = "iter" /\ tasks[t].isMounted /\ tasks[t].att = 1

----------------------------------------------------------------------------
\* Vocabulary of the broadcaster's properties.
Count(x, seq) == Cardinality({i \in DOMAIN seq : seq[i] = x})
\* The generator u is parked on a next() it cannot serve: nothing is left to consume.
ParkedOnNext(u) == u.pc = "await" /\ ~u.woken
Listeners(c) == Range(emitter[c])

\* C14: publish(topic, x) reaches every subscription consuming the topic, for every
\* payload x, falsy ones included: the listener of each is handed x, a subscription
\* parked on a pending next() is woken by it, and each yields x exactly once: a
\* subscription that has nothing left to consume has yielded every payload as many
\* times as it was published to it.
C14_PublishReachesEveryConsumer ==
  [][/\ \A c \in Topics, x \in 0..MaxPublishes :
          Publish(c, x)
            => \A s \in Listeners(c) :
                 /\ subs'[s].heard = Append(subs[s].heard, x)
                 /\ ParkedOnNext(subs[s]) => subs'[s].woken
     /\ \A s \in SubIds :
          ParkedOnNext(subs'[s])
            => \A x \in 0..MaxPublishes :
                 Count(x, subs'[s].yielded) = Count(x, subs'[s].heard)]_vars

\* C15: return() on a subscription parked on a pending next() with an empty queue
\* completes at once, with no further publish: the generator is done, its listener is
\* removed, once, and the channel's listener count drops by one; return() on a
\* completed subscription changes nothing.
C15_CloseWhileParkedCompletes ==
  [][\A s \in SubIds :
       /\ (ParkedOnNext(subs[s]) /\ subs[s].queue = <<>> /\ Close(s))
            => /\ subs'[s].pc = "done"
               /\ subs'[s].reqs = <<>>
               /\ subs'[s].offCalls = subs[s].offCalls + 1
               /\ s \notin Range(emitter'[subs[s].topic])
               /\ Len(emitter'[subs[s].topic]) = Len(emitter[subs[s].topic]) - 1
       /\ (subs[s].pc = "done" /\ Close(s)) => UNCHANGED <<emitter, subs>>]_vars

\* C16: a subscription yields the events published to its channel since its listener
\* was registered in the order of their publication, none lost, none twice: what it
\* has yielded, followed by what its queue holds, is what its listener was handed.
C16_YieldedInPublishOrder ==
  \A s \in SubIds : subs[s].yielded \o subs[s].queue = subs[s].heard

\* C17: publish on a channel that has no listener is a no-op, whatever the channel: it
\* does not throw and changes nothing of the emitter or of any subscription; what was
\* published before a subscription's first next() is never handed to it: the first
\* next() finds an empty queue and parks.
C17_PublishWithoutListenerIsNoOp ==
  [][/\ \A c \in Topics, x \in 0..MaxPublishes :
          (emitter[c] = <<>> /\ Publish(c, x))
            => (~threw' /\ UNCHANGED <<emitter, subs>>)
     /\ \A s \in SubIds :
          (subs[s].pc = "start" /\ Pull(s))
            => (ParkedOnNext(subs'[s]) /\ subs'[s].heard = <<>>)]_vars

----------------------------------------------------------------------------
\* Vocabulary of the channel manager's properties.
KeyOf(resourceId) == buildChannelKey(CurR, resourceId)
\* The Channel the map chs holds under a key, 0 when it holds none.
ChannelAt(chs, channelKey) == IF channelKey \in DOMAIN chs THEN chs[channelKey] ELSE 0
ChannelOf(chs, resourceId) == ChannelAt(chs, KeyOf(resourceId))

\* C19: the map holds different Channels under different keys; the resource id
\* getChannel is called with shares its channel key with no other resource id (the
\* empty id and ids with ':' included, whatever keyPrefix and keySuffix are), and
\* getChannel returns the
\* Channel the map holds for the resource, the one it held before when it held one;
\* and whatever is called (publish, getSessionCount, a session registering or
\* deregistering, the last one included), the Channel of a resource is replaced or
\* removed only by a cleanupIfEmpty of that resource that finds it without sessions.
C19_ChannelIdentity ==
  [][/\ \A key1, key2 \in DOMAIN channels' :
          channels'[key1] = channels'[key2] => key1 = key2
     /\ lastCall'.op = "getChannel"
          => LET channelKey == KeyOf(lastCall'.resourceId)
             IN /\ \A k \in ResourceIds :
                     (KeyOf(k) = channelKey) <=> (k = lastCall'.resourceId)
                /\ lastCall'.value # 0
                /\ lastCall'.value = ChannelAt(channels', channelKey)
                /\ ChannelAt(channels, channelKey) # 0
                     => lastCall'.value = ChannelAt(channels, channelKey)
     /\ channels' # channels
          => \A k \in ResourceIds :
               LET channelKey == KeyOf(k)
               IN (ChannelAt(channels, channelKey) # 0
                     /\ ChannelAt(channels', channelKey) # ChannelAt(channels, channelKey))
                    => /\ ChannelAt(channels', channelKey) = 0
                       /\ activeSessions'[ChannelAt(channels, channelKey)] = {}
                       /\ lastCall'.op = "cleanupIfEmpty"
                       /\ lastCall'.resourceId = k]_vars

\* getChannel returned the only Channel ever created, after the sessions that
\* registered on it have all deregistered.
C19_Witness_SameChannelAfterLastDeregister ==
  /\ lastCall.op = "getChannel"
  /\ lastCall.value = 1
  /\ nChannels = 1
  /\ activeSessions[1] = {}
  /\ \A s \in SessionIds : sessions[s].state = "disconnected"

\* C20: cleanupIfEmpty(k) changes nothing when the channel of k has a session or when
\* there is no channel for k: the map, the Channels' sessions and so the Channel a
\* later getChannel(k) returns and getSessionCount(k) are as before; the same holds
\* when it is the onDisconnect callback that calls it while other sessions remain.
C20_CleanupKeepsBusyChannel ==
  [][lastCall'.op = "cleanupIfEmpty"
       => LET channel == ChannelOf(channels, lastCall'.resourceId)
          IN /\ (sessions' = sessions /\ (channel = 0 \/ activeSessions[channel] # {}))
                  => UNCHANGED <<channels, nChannels, activeSessions>>
             /\ \A s \in SessionIds :
                  (/\ sessions[s].state = "connected" /\ sessions'[s].state = "disconnected"
                   /\ activeSessions[sessions[s].channel] # {s})
                    => /\ UNCHANGED <<channels, nChannels>>
                       /\ activeSessions'
                            = [activeSessions EXCEPT ![sessions[s].channel] = @ \ {s}]]_vars

\* cleanupIfEmpty was called for a resource whose channel has a session.
C20_Witness_CleanupOfBusyChannel ==
  /\ lastCall.op = "cleanupIfEmpty"
  /\ ChannelOf(channels, lastCall.resourceId) # 0
  /\ activeSessions[ChannelOf(channels, lastCall.resourceId)] # {}

\* A session is registered on the Channel in the map ss of sessions.
Registered(ss, channel) ==
  \E s \in SessionIds : ss[s].state = "connected" /\ ss[s].channel = channel

\* C21: once every session registered on the channel of k has deregistered,
\* getSessionCount(k) returns 0 and cleanupIfEmpty(k) removes the channel of k from
\* the map; getChannel(k) for a k that has no channel returns a Channel that was never
\* returned before (so not the removed one), stores it, and it has no session.
C21_CleanupThenFreshChannel ==
  [][LET k == lastCall'.resourceId
         channelKey == KeyOf(k)
         old == ChannelAt(channels, channelKey)
     IN /\ (lastCall'.op = "getSessionCount" /\ old # 0 /\ ~Registered(sessions, old))
             => lastCall'.value = 0
        /\ (lastCall'.op = "cleanupIfEmpty" /\ old # 0 /\ ~Registered(sessions', old))
             => channelKey \notin DOMAIN channels'
        /\ (lastCall'.op = "getChannel" /\ sessions' = sessions /\ old = 0)
             => /\ lastCall'.value > nChannels
                /\ \A key \in DOMAIN channels : channels[key] # lastCall'.value
                /\ \A s \in SessionIds : sessions[s].channel # lastCall'.value
                /\ ChannelAt(channels', channelKey) = lastCall'.value
                /\ activeSessions'[lastCall'.value] = {}]_vars

\* getChannel(k) returned Channel 2, the only one in the map: Channel 1 was removed
\* by cleanupIfEmpty, and the sessions have all deregistered.
C21_Witness_NewChannelAfterCleanup ==
  /\ lastCall.op = "getChannel"
  /\ lastCall.value = 2
  /\ nChannels = 2
  /\ DOMAIN channels = {KeyOf(lastCall.resourceId)}
  /\ \A s \in SessionIds : sessions[s].state = "disconnected"

\* C22: with onDisconnect wired to cleanupIfEmpty, whatever clients connect and
\* disconnect and whatever is published, a resource without a connected session has
\* no channel in the map.
C22_NoSessionNoChannel ==
  \A k \in ResourceIds :
    (\A s \in SessionIds : ~(sessions[s].state = "connected" /\ sessions[s].resourceId = k))
      => KeyOf(k) \notin DOMAIN channels

\* C23: publish(resourceId, event) leaves the Channel of the resource in the map,
\* the one that was there or, when there was none, a new one stored under the key and
\* nothing else changed in the map; it calls broadcast once, with the event it was
\* given and "message", on that Channel; no other call of the manager broadcasts.
\* Each publish broadcasting its own event before it returns, the broadcasts of
\* successive publishes are in call order.
C23_PublishBroadcastsOnceOnKeyChannel ==
  [][/\ lastCall'.op = "publish"
          => LET channelKey == KeyOf(lastCall'.resourceId)
                 old == ChannelAt(channels, channelKey)
                 channel == ChannelAt(channels', channelKey)
             IN /\ channel # 0
                /\ old # 0 => (channel = old /\ UNCHANGED <<channels, nChannels>>)
                /\ old = 0 => /\ channel = nChannels + 1
                              /\ nChannels' = channel
                              /\ DOMAIN channels' = DOMAIN channels \cup {channelKey}
                              /\ \A key \in DOMAIN channels : channels'[key] = channels[key]
                /\ lastCall'.event \in Events
                /\ lastCall'.broadcast = <<broadcast(channel, lastCall'.event, "message")>>
                /\ UNCHANGED <<activeSessions, sessions>>
     /\ lastCall'.op # "publish" => lastCall'.broadcast = <<>>]_vars

\* publish was called for a resource without channel while another resource had one:
\* the map holds both, and the broadcast went to the new Channel.
C23_Witness_PublishCreatedSecondChannel ==
  /\ lastCall.op = "publish"
  /\ Cardinality(DOMAIN channels) = 2
  /\ lastCall.broadcast = <<broadcast(2, "second", "message")>>
  /\ ChannelOf(channels, lastCall.resourceId) = 2
  /\ activeSessions[2] = {}

\* C24: getSessionCount(resourceId) returns the number of sessions that registered
\* on the Channel the map holds for the resource and have not deregistered, 0 when the
\* map holds none, and changes neither the map nor any Channel.
C24_SessionCountIsPureLookup ==
  [][lastCall'.op = "getSessionCount"
       => LET channel == ChannelOf(channels, lastCall'.resourceId)
          IN /\ lastCall'.value
                  = IF channel = 0 THEN 0
                    ELSE Cardinality({s \in SessionIds : /\ sessions[s].state = "connected"
                                                         /\ sessions[s].channel = channel})
             /\ UNCHANGED <<keyPrefix, keySuffix, channels, nChannels, activeSessions,
                            sessions>>]_vars

\* getSessionCount returned 1 for the resource of the only Channel ever created,
\* one of its two sessions having deregistered.
C24_Witness_CountedRemainingSession ==
  /\ lastCall.op = "getSessionCount"
  /\ lastCall.value = 1
  /\ nChannels = 1
  /\ \E s, q \in SessionIds :
       sessions[s].state = "disconnected" /\ sessions[q].state = "connected"

\* Vocabulary of the client hooks' properties: the data of the message event the step
\* received, and the invalidateQueries calls of the last step.
Delivered == received' # received
LastData(r) == r[Len(r)]
CallsOf(log, cb) == SelectSeq(log, LAMBDA c : c.cb = cb)

\* C25: for a received event, with keys the option queryKeys or, when it is a
\* function, what it returns for the event: no invalidateQueries call when keys is
\* the empty list; one call, with keys, when keys is a single key (its first element
\* is not an array); and when keys is a list of keys, one call for each key of the
\* list, in the list's order.
C25_OneInvalidationPerKey ==
  [][(Delivered /\ ~JSONparse(LastData(received')).threw)
       => LET event == JSONparse(LastData(received')).value
              keys == IF queryKeys.t = "function" THEN queryKeys.v[event.n] ELSE queryKeys
              calls == CallsOf(sseFired', "invalidateQueries")
          IN keys.t = "array"
               => /\ keys.v = <<>> => calls = <<>>
                  /\ (keys.v # <<>> /\ keys.v[1].t # "array")
                       => (Len(calls) = 1 /\ calls[1].arg = keys)
                  /\ (keys.v # <<>> /\ keys.v[1].t = "array")
                       => /\ Len(calls) = Len(keys.v)
                          /\ \A i \in 1..Len(calls) : calls[i].arg = keys.v[i]]_vars

\* An event was received with queryKeys a function that returns the empty list for
\* it: onEvent was called and nothing else.
C25_Witness_EventWithNoKeys ==
  /\ received # <<>>
  /\ queryKeys.t = "function"
  /\ sseFired = <<call("onEvent", Obj(1))>>
  /\ queryKeys.v[1] = Arr(<<>>)

\* C26: a message event whose data is not JSON is dropped: onEvent is not called
\* and nothing is invalidated, console.error is called once, connected and the
\* EventSource are as before and close is not called; and a message event with the
\* JSON text of an event that comes after one that was dropped is handed to onEvent,
\* parsed, once.
C26_MalformedItemDropped ==
  [][Delivered
       => LET parsed == JSONparse(LastData(received'))
          IN /\ parsed.threw
                  => /\ CallsOf(sseFired', "onEvent") = <<>>
                     /\ CallsOf(sseFired', "invalidateQueries") = <<>>
                     /\ CallsOf(sseFired', "close") = <<>>
                     /\ Len(CallsOf(sseFired', "console.error")) = 1
                     /\ sse' = sse
                     /\ sse'.connected /\ sse'.eventSource = "OPEN"
             /\ (~parsed.threw /\ \E i \in DOMAIN received : JSONparse(received[i]).threw)
                  => /\ CallsOf(sseFired', "onEvent") = <<call("onEvent", parsed.value)>>
                     /\ CallsOf(sseFired', "console.error") = <<>>]_vars

\* A text that is not JSON was received, and then the JSON text of an event, which
\* was handed to onEvent; the hook is still connected.
C26_Witness_EventAfterMalformed ==
  /\ received = <<"not valid json{", "{\"id\":2}">>
  /\ sseFired[1] = call("onEvent", Obj(2))
  /\ sse.connected
  /\ sse.eventSource = "OPEN"

\* The message createRedisBroadcaster throws says that the Redis broadcaster is not
\* implemented.
SaysRedisNotImplemented(message) ==
  /\ Len(message) = 1
  /\ message[1] = "Redis broadcaster not yet implemented. Install @upstash/redis and implement using the pattern from the documentation."

\* C27: createEventBroadcaster returns a broadcaster only for type 'memory', and then
\* the in-memory one; for type 'redis' it throws an Error saying that the Redis
\* broadcaster is not implemented; for every other type it throws an Error 'Unknown
\* broadcaster type: <type>'.  No config of a type other than 'memory' gets the in-memory
\* broadcaster.
C27_BroadcasterOnlyForMemory ==
  \A i \in 1..Len(created) :
    LET c == created[i]
    IN /\ c.result = "broadcaster" => c.config.type = "memory" /\ c.kind = "memory"
       /\ c.config.type = "redis" => c.result = "threw" /\ SaysRedisNotImplemented(c.message)
       /\ c.config.type \notin {"memory", "redis"} =>
            /\ c.result = "threw"
            /\ c.message = <<"Unknown broadcaster type: ", c.config.type>>
       /\ (c.config.type = "memory" /\ c.result = "threw") =>
            /\ c.config.hasMaxListeners
            /\ c.config.maxListeners < 0

\* C27 witness: a call with a type that is not a broadcaster type threw, and a call
\* with type 'memory' after it returned the in-memory broadcaster.
C27_Witness_UnknownThrewMemoryCreated ==
  /\ Len(created) = 2
  /\ created[1].config.type = "invalid"
  /\ created[1].result = "threw"
  /\ created[2].config.type = "memory"
  /\ created[2].result = "broadcaster"

\* Comparison of two results as numbers: NaN compares false with everything.
IsNumber(x) == x # NaN
Leq(a, b) == IsNumber(a) /\ IsNumber(b) /\ a <= b

\* min(base * 2^attempt, max) in exact arithmetic, for base >= 0 and 0 < max < 2^30:
\* from attempt 30 a positive base times 2^attempt is above max.
ExactBackoff(attempt, base, max) ==
  IF base = 0 THEN 0
  ELSE IF attempt >= 30 THEN max
  ELSE IF base * 2^attempt < max THEN base * 2^attempt ELSE max

\* C28: every call calculateBackoff(attempt, base, max) with attempt >= 0 returns
\* min(base * 2^attempt, max); with attempt 0 and base <= max it returns base; the
\* result is at least the result for every smaller attempt with the same base and max,
\* and at most max.
C28_BackoffIsCappedDoubling ==
  backoff.fn = "calculateBackoff" =>
    /\ backoff.result = ExactBackoff(backoff.attempt, backoff.baseDelay, backoff.maxDelay)
    /\ (backoff.attempt = 0 /\ backoff.baseDelay <= backoff.maxDelay) =>
         backoff.result = backoff.baseDelay
    /\ \A a \in Attempts :
         a <= backoff.attempt =>
           Leq(calculateBackoff(a, backoff.baseDelay, backoff.maxDelay), backoff.result)
    /\ Leq(backoff.result, backoff.maxDelay)

\* Math.round(num / den) for num >= 0 and den > 0.
Round(num, den) == (2 * num + den) \div (2 * den)

\* C29: every call calculateBackoffWithJitter(attempt, base, max, p) returns, for
\* c = min(base * 2^attempt, max) and every random draw, an integer between
\* round(c * (1 - p)) and round(c * (1 + p)), so at most max + p * max; with p = 0 it
\* returns c, the value of calculateBackoff.
C29_JitterAfterCap ==
  backoff.fn = "calculateBackoffWithJitter" =>
    LET c == ExactBackoff(backoff.attempt, backoff.baseDelay, backoff.maxDelay)
        p == backoff.jitterPercent
    IN /\ IsNumber(backoff.result)
       /\ Leq(Round(c * (100 - p), 100), backoff.result)
       /\ Leq(backoff.result, Round(c * (100 + p), 100))
       /\ Leq(backoff.result, Round(backoff.maxDelay * (100 + p), 100))
       /\ p = 0 =>
            /\ backoff.result = c
            /\ backoff.result =
                 calculateBackoff(backoff.attempt, backoff.baseDelay, backoff.maxDelay)

\* An invocation of the mounted closure that consumes the stream streamFn gave it and
\* has not been cancelled.
ActivelyIterating(t) ==
  /\ tasks[t].pc = "iter"
  /\ tasks[t].isMounted
  /\ ~tasks[t].aborted

\* C30: while the hook is mounted, isConnected is true only while the current, not cancelled invocation iterates a
\* stream obtained from streamFn; it is false while the hook is paused by the page's
\* visibility, while a backoff timer is armed, and when the hook has stopped.
C30_ConnectedOnlyWhileIterating ==
  /\ (comp = "mounted" /\ isConnected) => \E t \in TaskIds : ActivelyIterating(t)
  /\ Paused => ~isConnected
  /\ timers # <<>> => ~isConnected
  /\ Stopped => ~isConnected

----------------------------------------------------------------------------
\* The step armed a backoff timer: scheduleReconnect ran in it.
Armed ==
  /\ timers' # <<>>
  /\ timers'[Len(timers')].isRef
  /\ timers'[Len(timers')] \notin Range(timers)

\* C31: the attempt counter grows exactly in the steps that schedule a reconnect, by
\* one, after a failed or ended connection (onDisconnect is invoked once); the delay
\* of the timer is computed from the counter after the increment, and a streamFn call
\* of the same step came before it; no other step changes the counter, except
\* reconnect(), which sets it to 0.
C31_AttemptCountsScheduledReconnects ==
  [][/\ currentAttemptRef' > currentAttemptRef <=> Armed
     /\ Armed =>
          /\ currentAttemptRef' = currentAttemptRef + 1
          /\ timers'[Len(timers')].attempt = currentAttemptRef'
          /\ Cardinality({i \in DOMAIN fired' : fired'[i].cb = "onDisconnect"}) = 1
          /\ \A i \in DOMAIN fired' :
               fired'[i].cb = "streamFn" => fired'[i].attempt = currentAttemptRef
     /\ currentAttemptRef' < currentAttemptRef =>
          /\ fired'[1].cb = "reconnect"
          /\ currentAttemptRef' = 0]_vars

\* The second failure in a row has scheduled the second reconnect: a timer fired, its
\* streamFn call threw with the counter at 1, and the timer armed carries attempt 2.
C31_Witness_SecondReconnectScheduled ==
  /\ currentAttemptRef = 2
  /\ timers = <<[isMounted |-> TRUE, isRef |-> TRUE, attempt |-> 2]>>
  /\ \E i \in DOMAIN fired : fired[i].cb = "streamFn" /\ fired[i].attempt = 1
  /\ Called("onError")

----------------------------------------------------------------------------
\* C32: the keep-alive timeout of a subscription parked on a pending next() with an
\* empty queue is transparent: the step settles no next() (nothing is yielded, the
\* request stays pending), does not complete the generator and leaves its listener
\* registered; and an event published to the topic while the subscription is parked
\* (so also after a keep-alive) is handed to its listener, wakes it, and is yielded to
\* that pending next() when the body resumes.
C32_KeepAliveIsTransparent ==
  [][\A s \in SubIds :
       /\ (ParkedOnNext(subs[s]) /\ KeepAlive(s))
            => /\ subs'[s].yielded = subs[s].yielded
               /\ subs'[s].reqs = subs[s].reqs
               /\ ParkedOnNext(subs'[s])
               /\ emitter' = emitter
               /\ s \in Range(emitter'[subs[s].topic])
       /\ \A x \in 0..MaxPublishes :
            (ParkedOnNext(subs[s]) /\ Publish(subs[s].topic, x))
              => /\ subs'[s].woken
                 /\ subs'[s].queue = <<x>>
       /\ (subs[s].pc = "await" /\ subs[s].woken /\ subs[s].queue # <<>>
           /\ subs[s].reqs # <<>> /\ Head(subs[s].reqs) = "next" /\ Resume(s))
            => subs'[s].yielded = Append(subs[s].yielded, Head(subs[s].queue))]_vars

\* C33: topics are isolated.  A publish to a topic changes nothing of a subscription to
\* another topic (not its queue, not what it has yielded, not where it is suspended)
\* and leaves every other topic's listeners, so its getListenerCount, unchanged; a
\* subscription's listener is handed an event only in a publish step (so only by a
\* publish to its own topic), and a subscription yields, one event a step, only what
\* its listener was handed.
C33_TopicsAreIsolated ==
  [][/\ nPublished' = nPublished + 1 =>
          \E c \in Topics, x \in Payloads(nPublished + 1) :
            /\ subs' = publish(BeginB, c, x).subs
            /\ threw' = publish(BeginB, c, x).threw
            /\ \A s \in SubIds : subs[s].topic # c => subs'[s] = subs[s]
            /\ \A c2 \in Topics \ {c} : Len(emitter'[c2]) = getListenerCount(CurB, c2)
     /\ nPublished' = nPublished =>
          \A s \in SubIds : subs'[s].heard = subs[s].heard
     /\ \A s \in SubIds :
          subs'[s].yielded # subs[s].yielded
            => /\ Len(subs'[s].yielded) = Len(subs[s].yielded) + 1
               /\ subs'[s].yielded[Len(subs'[s].yielded)] \in Range(subs'[s].heard)]_vars

\* Two subscriptions on different topics, one publish to each: each has yielded the
\* event of its own topic and nothing else.
C33_Witness_EachYieldedItsOwn ==
  /\ subs[1].topic = "chat" /\ subs[2].topic = "error"
  /\ nPublished = 2
  /\ subs[1].yielded = <<1>> /\ subs[2].yielded = <<2>>
  /\ subs[1].heard = <<1>> /\ subs[2].heard = <<2>>

----------------------------------------------------------------------------
\* The sessions whose "disconnected" listener runs in the step.
Disconnecting ==
  {s \in SessionIds : sessions[s].state = "connected" /\ sessions'[s].state = "disconnected"}

\* C34: when a session's 'disconnected' event fires, the session is deregistered from
\* the channel it was registered on, and onDisconnect runs after it: its
\* cleanupIfEmpty(params) finds the session already removed, so it removes the channel
\* when the session was the last one on it and leaves the map alone otherwise.  The
\* listener runs once per session: a disconnected session never changes again, and
\* each cleanupIfEmpty call is the onDisconnect of exactly one session.
C34_DeregisterBeforeOnDisconnect ==
  [][/\ \A s \in Disconnecting :
          \E ch \in {sessions[s].channel}, channelKey \in {KeyOf(sessions[s].resourceId)} :
            /\ activeSessions'[ch] = activeSessions[ch] \ {s}
            /\ s \in activeSessions[ch]
            /\ lastCall'.op = "cleanupIfEmpty"
            /\ lastCall'.resourceId = sessions[s].resourceId
            /\ ChannelAt(channels, channelKey) = ch
            /\ activeSessions[ch] = {s} => channelKey \notin DOMAIN channels'
            /\ activeSessions[ch] # {s} => channels' = channels
     /\ \A s \in SessionIds :
          sessions[s].state = "disconnected"
            => /\ sessions'[s] = sessions[s]
               /\ \A ch \in ChannelIds : s \notin activeSessions'[ch]
     /\ lastCall'.op = "cleanupIfEmpty" => Cardinality(Disconnecting) = 1]_vars

\* Two sessions of one resource have disconnected: the first left the channel in the
\* map, the second, the last one on it, had it removed.
C34_Witness_LastDisconnectRemovedChannel ==
  /\ \A s \in SessionIds : sessions[s].state = "disconnected"
  /\ nChannels = 1
  /\ channels = <<>>
  /\ lastCall.op = "cleanupIfEmpty"

\* C35: with the route handler wired to cleanupIfEmpty, in every interleaving of
\* connects, disconnects and publishes, every connected session is registered on the
\* Channel the map holds for its resource; so the broadcast of a publish is made on
\* the Channel of every session connected for the resource.
C35_NoOrphanedSessions ==
  /\ \A s \in SessionIds :
       sessions[s].state = "connected"
         => /\ sessions[s].channel # 0
            /\ ChannelOf(channels, sessions[s].resourceId) = sessions[s].channel
            /\ s \in activeSessions[sessions[s].channel]
  /\ lastCall.op = "publish"
       => /\ Len(lastCall.broadcast) = 1
          /\ \A s \in SessionIds :
               (sessions[s].state = "connected" /\ sessions[s].resourceId = lastCall.resourceId)
                 => s \in activeSessions[lastCall.broadcast[1].channel]

\* A session connected to a resource after an earlier session of the same resource had
\* disconnected and its channel had been removed; an event was then published to it.
C35_Witness_PublishAfterReconnect ==
  /\ sessions[1].state = "disconnected"
  /\ sessions[2].state = "connected"
  /\ nChannels = 2
  /\ sessions[2].channel = 2
  /\ lastCall.op = "publish"
  /\ lastCall.resourceId = sessions[2].resourceId

----------------------------------------------------------------------------
\* An invocation of the mounted closure, not cancelled, that waits for streamFn's stream.
Connecting(t) ==
  /\ tasks[t].pc = "factory"
  /\ tasks[t].isMounted
  /\ ~tasks[t].aborted

\* C36: while the hook is mounted, isReconnecting is true only while a backoff timer is
\* armed or a connect attempt is in flight; when the hook has stopped (retries
\* exhausted or shouldRetry returned false, no timer armed) isReconnecting is false.
C36_ReconnectingOnlyWhileRetrying ==
  /\ (comp = "mounted" /\ isReconnecting)
       => (timers # <<>> \/ \E t \in TaskIds : Connecting(t))
  /\ Stopped => ~isReconnecting

\* The connections that end in the step: an invocation that was consuming its stream
\* (onConnect was invoked for it) returns.
EndingConnections == {t \in TaskIds : tasks[t].pc = "iter" /\ tasks'[t].pc = "done"}

\* C37: onDisconnect is invoked only for a connection, that is for an invocation that
\* had obtained its stream and invoked onConnect, never for a streamFn call that failed
\* before there was a stream, and at most once for each connection.
C37_DisconnectOnlyAfterConnect ==
  [][LET nDisconnect == Cardinality({i \in DOMAIN fired' : fired'[i].cb = "onDisconnect"})
     IN /\ nDisconnect <= Cardinality(EndingConnections)
        /\ nDisconnect <= 1]_vars

\* C38: once the external signal of the options is aborted, no step invokes streamFn,
\* onConnect or onData, also not the step of a backoff timer armed before the abort.
C38_NothingAfterExternalAbort ==
  [][extAborted =>
       \A i \in DOMAIN fired' : fired'[i].cb \notin {"streamFn", "onConnect", "onData"}]_vars

\* C39: at most one backoff timer is armed at any time, and none while the hook is
\* connected (isConnected) or an invocation of the mounted closure, not cancelled, is
\* connecting or consuming its stream; every armed timer is the one
\* reconnectTimeoutRef holds and belongs to the closure of the mounted component, so
\* that no timer of a torn-down closure is left to fire.
C39_OneTimerNoneWhileConnected ==
  /\ Len(timers) <= 1
  /\ timers # <<>> =>
       /\ ~isConnected
       /\ \A t \in TaskIds : ~(tasks[t].isMounted /\ ~tasks[t].aborted /\ InFlight(tasks[t]))
  /\ \A i \in DOMAIN timers :
       /\ timers[i].isMounted
       /\ timers[i].isRef
       /\ comp = "mounted"

\* C40: a successful connection does not reset the attempt counter.  Unless reconnect()
\* is called the counter never decreases, and the step that obtains a stream (onConnect)
\* leaves it unchanged; the retry decision after a later failure compares the
\* accumulated counter with maxRetries (at the cap no timer is armed and
\* onMaxRetriesReached is invoked), and a timer armed carries the accumulated counter
\* plus one.
C40_ConnectKeepsAttempt ==
  [][/\ NoReconnectCall(fired') => currentAttemptRef' >= currentAttemptRef
     /\ (Called("onConnect")' /\ ~Called("onDisconnect")' /\ NoReconnectCall(fired'))
          => currentAttemptRef' = currentAttemptRef
     /\ \A i \in DOMAIN fired' :
          fired'[i].cb = "onError"
            => /\ fired'[i].attempt = currentAttemptRef
               /\ currentAttemptRef >= maxRetries
                    => /\ ~Armed
                       /\ Called("onMaxRetriesReached")'
                       /\ currentAttemptRef' = currentAttemptRef
               /\ Armed => timers'[Len(timers')].attempt = currentAttemptRef + 1]_vars

\* With maxRetries = 1: the first call failed, the second connected, and the stream then
\* threw: the one failure before the connection counts, and the hook gives up.
C40_Witness_GaveUpAfterConnectedRetry ==
  /\ maxRetries = 1
  /\ factoryCalls = 2
  /\ currentAttemptRef = 1
  /\ Called("onMaxRetriesReached")
  /\ ~Called("streamFn")
  /\ timers = <<>>

====
